---- MODULE Spec2Model ----
(***************************************************************************)
(* Rate-limited data acquisition, result cache and score-path selection of *)
(* the university ranking bot (ranking/pkUniRankBot.py).                    *)
(*                                                                         *)
(* Time is discrete.  One tick is the minute window of the rate limiter;   *)
(* the hour and the day windows are scaled down to a few ticks and the     *)
(* per-window ceilings to a few calls, so that every window can fill up    *)
(* and drain again inside the explored horizon.                            *)
(***************************************************************************)
EXTENDS Integers, Sequences, FiniteSets, TLC

\* ---------------------------------------------------------------- bounds
MaxTime == 1          \* Spec, SpecCache: the clock stops here
MaxRequests == 1      \* Spec: ranking requests served in one behaviour
CacheRequests == 2    \* SpecCache: ranking requests served in one behaviour
LimiterTime == 4      \* SpecLimiter: the clock stops here
LimiterRequests == 3  \* SpecLimiter: ranking requests served in one behaviour
HourMinutes == 2      \* minutes per hour window (60 in the program)
DayHours == 2         \* hours per day window (24 in the program)
PerMinute == 2        \* requests_per_minute of every modelled source
PerHour == 3          \* requests_per_hour of every modelled source
PerDay == 4           \* requests_per_day of every modelled source
FineSteps == 10       \* SpecTier: ten-thousandths examined below a tier boundary
EstimateCalls == 2    \* SpecEstimate: calls of estimate_scores on one argument
BatchRows == 3        \* SpecBatch: rows of the largest input sheet
ConfigUsers == 2      \* SpecConfig: users that talk to the bot
RaceThreads == 2      \* SpecRace: threads that fetch from one source
RaceFetches == 3      \* SpecRace: fetches one thread begins
RaceTime == 2         \* SpecRace: the clock stops here
RetryTries == 6       \* SpecRetry: fetcher calls made in one behaviour
RetryTime == 2        \* SpecRetry: the clock stops here
ExcelRows == 2        \* SpecExcel: rows of a workbook
ExcelUploads == 2     \* SpecExcel: batch threads started in all
ChatRankings == 1     \* SpecChat: rankings performed in all

\* ------------------------------------------------------ program constants
reset_interval_minutes == 1
reset_interval_hours == 1
reset_interval_days == 24
NumQueries == 3
default_retry_after == 1   \* Retry-After defaults to '60' seconds: one minute

MinuteTicks == 1
HourTicks == HourMinutes * MinuteTicks
DayTicks == DayHours * HourTicks

\* The three APIType members that have a fetcher.
Sources == {"wikipedia", "google_search", "webometrics"}

limits == [s \in Sources |->
             [requests_per_minute |-> PerMinute,
              requests_per_hour   |-> PerHour,
              requests_per_day    |-> PerDay]]

Universities == {"Harvard University", "Bryant University", "Acme Institute",
                 "Massachusetts Institute of Technology"}
Countries == {"USA", "usa"}

\* the (name, country) pairs that are ranked
Inputs == {<<"Harvard University", "usa">>, <<"Bryant University", "USA">>,
           <<"Acme Institute", "USA">>,
           <<"Massachusetts Institute of Technology", "USA">>}

\* SpecCache: two spellings of one cache key, and another key
CacheInputs == {<<"Harvard University", "USA">>, <<"Harvard University", "usa">>,
                <<"Acme Institute", "USA">>}

\* SpecLimiter: one name, so that the call logs are what varies
LimiterInputs == {<<"Acme Institute", "USA">>}

\* str.lower() on the strings of the model
lower(s) ==
  CASE s = "Harvard University" -> "harvard university"
    [] s = "Bryant University"  -> "bryant university"
    [] s = "Acme Institute"     -> "acme institute"
    [] s = "Massachusetts Institute of Technology"
                                -> "massachusetts institute of technology"
    [] s = "MIT"                -> "mit"
    [] s = "Stanford University" -> "stanford university"
    [] s = "Conestoga College"  -> "conestoga college"
    [] s = "Algonquin College"  -> "algonquin college"
    [] s = "Harvard Business School"   -> "harvard business school"
    [] s = "State Technical Institute" -> "state technical institute"
    [] s = "Generic University" -> "generic university"
    [] s = "USA"                -> "usa"
    [] OTHER                    -> s

\* UserConfiguration: the three source flags
Configs == [enable_wikipedia : BOOLEAN, enable_google_search : BOOLEAN,
            enable_webometrics : BOOLEAN]

\* SpecCache: at most one source enabled
SingleConfigs ==
  {cfg \in Configs :
     Cardinality({f \in DOMAIN cfg : cfg[f]}) <= 1}

\* SpecLimiter: one source enabled, or Google search with Webometrics
LimiterConfigs ==
  {cfg \in Configs :
     \/ Cardinality({f \in DOMAIN cfg : cfg[f]}) = 1
     \/ (~cfg.enable_wikipedia /\ cfg.enable_google_search
         /\ cfg.enable_webometrics)}

\* the flags of Wikipedia and Webometrics read for each other
enabled_swapped(user_config, api) ==
  CASE api = "wikipedia"     -> user_config.enable_webometrics
    [] api = "google_search" -> user_config.enable_google_search
    [] api = "webometrics"   -> user_config.enable_wikipedia

\* fetch_all_data: `if user_config.enable_<source>`
enabled(user_config, api) ==
  CASE api = "wikipedia"     -> user_config.enable_wikipedia
    [] api = "google_search" -> user_config.enable_google_search
    [] api = "webometrics"   -> user_config.enable_webometrics

VARIABLES
  now,             \* datetime.now(), in ticks
  calls,           \* RateLimiter.trackers[api].calls
  real_data_cache, \* EnhancedUniversityRankingSystem.real_data_cache
  pc,              \* position of the ranking request in flight
  req,             \* its arguments
  all_data,        \* fetch_all_data: all_data
  rate_limit_info, \* fetch_all_data: rate_limit_info
  qi,              \* fetch_all_data: number of the next Google query
  cache_hit,       \* fetch_real_data served the request from the cache
  result,          \* the UniversityData returned by rank_university
  served,          \* number of ranking requests started
  attempt,         \* history: what the latest fetcher call did
  visited,         \* history: fetchers called by the request, in call order
  denied,          \* history: the failed rate-limit checks of the request
  start_calls,     \* history: the call logs when the request started
  produced         \* history: first non-empty payload returned for each
                   \* case-folded (name, country)

request_vars == <<now, calls, real_data_cache, pc, req, all_data, rate_limit_info,
                  qi, cache_hit, result, served, attempt, visited, denied,
                  start_calls, produced>>

VARIABLES
  tier_score,      \* get_tier: the score argument, in ten-thousandths
  tier_bot,        \* what get_tier of the bot modules returned for it
  tier_rank        \* what get_tier of rank.py returned for it

tier_vars == <<tier_score, tier_bot, tier_rank>>

VARIABLES
  est_input,       \* estimate_scores: the (name, country) argument
  est_results      \* what the calls of estimate_scores returned for it, in
                   \* order, by the Telegram and by the WhatsApp module

est_vars == <<est_input, est_results>>

VARIABLES
  job,             \* "thread": ExcelProcessingThread; "function":
                   \* process_excel_file; "": no batch job
  total_universities, \* len(df)
  idx,             \* the row the loop is at, from 1
  job_pc,          \* "loop", "after" (the loop was left), "ended", "" (no job)
  cancelled,       \* ExcelProcessingThread.cancelled
  result_df,       \* the result rows, in the order of the input
  processed_count, \* processed_count / progress_tracker.processed_items
  progress_queue,  \* the terminal events put on progress_queue, or the
                   \* returned workbook; progress and file_update events,
                   \* which touch neither result_df nor the counters, are
                   \* not kept
  failed,          \* history: the rows whose ranking raised
  cancel_seen      \* history: the job read cancelled as True

batch_vars == <<job, total_universities, idx, job_pc, cancelled, result_df,
                processed_count, progress_queue, failed, cancel_seen>>

VARIABLES
  bot,             \* "telegram": EnhancedUniRankBot; "whatsapp":
                   \* WhatsAppUniversityRankingBot; "": no conversation
  user_configurations, \* user id -> UserConfiguration (its three flags)
  user_states,     \* WhatsApp: user id -> conversation state
  last_event       \* history: the update or message handled last

config_vars == <<bot, user_configurations, user_states, last_event>>

VARIABLES
  threads,         \* concurrent fetches of one source: thread -> where it is
                   \* in safe_fetch_wikipedia and how many fetches it began
  retry            \* a caller that keeps fetching: history of the times of
                   \* the calls whose check passed, per source, and the
                   \* number of fetcher calls made

VARIABLES
  user_excel_processing, \* EnhancedUniRankBot.user_excel_processing: user id ->
                   \* the entry of the batch job of the user
  excel_threads    \* the ExcelProcessingThread objects made so far, in the
                   \* order of their construction

excel_vars == <<user_excel_processing, excel_threads>>

VARIABLES
  state_data,      \* WhatsApp: user id -> user_states[user]['data']
  rankings         \* history: the calls of the WhatsApp perform_ranking

chat_vars == <<state_data, rankings>>

extra_vars == <<threads, retry, excel_vars, chat_vars>>

\* the variables that a ranking request leaves alone
other_vars == <<tier_vars, est_vars, batch_vars, config_vars, extra_vars>>

vars == <<request_vars, other_vars>>

\* ------------------------------------------------- APICallTracker / limiter
Newer(log, cutoff) == SelectSeq(log, LAMBDA c : c > cutoff)

add_call(log, t) == Newer(Append(log, t), t - DayTicks)

get_recent_calls(log, t) == Len(Newer(log, t - MinuteTicks))

get_hourly_calls(log, t) == Len(Newer(log, t - HourTicks))

get_daily_calls(log, t) == Len(Newer(log, t - DayTicks))

\* A reset time is kept as its distance from the `now` it was computed at.
get_reset_time(time_unit) ==
  CASE time_unit = "minute" -> reset_interval_minutes * MinuteTicks
    [] time_unit = "hour"   -> reset_interval_hours * HourTicks
    [] time_unit = "day"    -> reset_interval_days * DayTicks
    [] OTHER                -> 0

NoException == [raised |-> FALSE, api |-> "", reset_time |-> 0, detail |-> ""]

RateLimitExceededException(api, reset_time, detail) ==
  [raised |-> TRUE, api |-> api, reset_time |-> reset_time, detail |-> detail]

\* a check that lets the call at the ceiling through (> for >=)
check_rate_limit_above(api, log, t) ==
  IF get_recent_calls(log, t) > limits[api].requests_per_minute
  THEN RateLimitExceededException(api, get_reset_time("minute"), "Minute limit")
  ELSE IF get_hourly_calls(log, t) > limits[api].requests_per_hour
  THEN RateLimitExceededException(api, get_reset_time("hour"), "Hourly limit")
  ELSE IF get_daily_calls(log, t) > limits[api].requests_per_day
  THEN RateLimitExceededException(api, get_reset_time("day"), "Daily limit")
  ELSE NoException

\* check_rate_limit: the exception it raises, NoException when it returns True
check_rate_limit(api, log, t) ==
  IF get_recent_calls(log, t) >= limits[api].requests_per_minute
  THEN RateLimitExceededException(api, get_reset_time("minute"), "Minute limit")
  ELSE IF get_hourly_calls(log, t) >= limits[api].requests_per_hour
  THEN RateLimitExceededException(api, get_reset_time("hour"), "Hourly limit")
  ELSE IF get_daily_calls(log, t) >= limits[api].requests_per_day
  THEN RateLimitExceededException(api, get_reset_time("day"), "Daily limit")
  ELSE NoException

RECURSIVE record_calls(_, _, _)
record_calls(log, t, n) ==
  IF n = 0 THEN log ELSE record_calls(add_call(log, t), t, n - 1)

\* get_api_status: the counters are not kept, only the entry
get_api_status(api) == [api |-> api, status |-> "status", reset_time |-> 0]

rate_limited_note(e) ==
  [api |-> e.api, status |-> "rate_limited", reset_time |-> e.reset_time]

\* ------------------------------------------------------------- fetchers
\* A fetcher call is summarised by: what it returned (data), the exception
\* that left it (exc), whether the external request was made (requested),
\* and how many times it called record_call (nrecords).
WikiOutcomes == {"page", "page_rich", "disambiguation_page", "disambiguation_error",
                 "page_error", "exception"}
GoogleOutcomes == {"links", "no_links", "non_200", "exception"}
WebOutcomes == {"200", "429", "429_http_date", "other_status", "exception"}

Fetched(o, c, data, exc, requested, nrecords) ==
  [outcome |-> o, check |-> c, data |-> data, exc |-> exc,
   requested |-> requested, nrecords |-> nrecords]

safe_fetch_wikipedia(o, log, t) ==
  LET c == check_rate_limit("wikipedia", log, t) IN
  IF c.raised THEN Fetched(o, c, "none", c, FALSE, 0)
  ELSE CASE o = "page" -> Fetched(o, c, "page", NoException, TRUE, 1)
         [] o = "page_rich" -> Fetched(o, c, "page_rich", NoException, TRUE, 1)
         [] o = "disambiguation_page" ->
              Fetched(o, c, "page", NoException, TRUE, 1)
         [] o = "disambiguation_error" ->
              Fetched(o, c, "none", NoException, TRUE, 1)
         [] o = "page_error" -> Fetched(o, c, "none", NoException, TRUE, 1)
         [] OTHER -> Fetched(o, c, "none", NoException, TRUE, 0)

\* `except Exception` also catches the RateLimitExceededException of the check
safe_google_search(o, log, t) ==
  LET c == check_rate_limit("google_search", log, t) IN
  IF c.raised THEN Fetched(o, c, "none", NoException, FALSE, 1)
  ELSE CASE o = "links" -> Fetched(o, c, "links", NoException, TRUE, 1)
         [] OTHER -> Fetched(o, c, "none", NoException, TRUE, 1)

safe_fetch_webometrics(o, log, t) ==
  LET c == check_rate_limit("webometrics", log, t) IN
  IF c.raised THEN Fetched(o, c, "none", c, FALSE, 0)
  ELSE CASE o = "200" -> Fetched(o, c, "page", NoException, TRUE, 1)
         [] o = "429" ->
              Fetched(o, c, "none",
                      RateLimitExceededException("webometrics",
                                                 default_retry_after, "HTTP 429"),
                      TRUE, 1)
         [] o = "429_http_date" -> Fetched(o, c, "none", NoException, TRUE, 2)
         [] OTHER -> Fetched(o, c, "none", NoException, TRUE, 1)

\* history of a fetcher call: the source, the time and the call log it found,
\* whether its check failed (denied), whether a RateLimitExceededException
\* left it (raised), whether it made the external request, and whether a check
\* of the same source had failed earlier in the request
NoAttempt == [api |-> "", outcome |-> "", at |-> 0, log |-> <<>>,
              denied |-> FALSE, raised |-> FALSE, requested |-> FALSE,
              after_denial |-> FALSE]

Attempt(api, f, t, log, after_denial) ==
  [api |-> api, outcome |-> f.outcome, at |-> t, log |-> log,
   denied |-> f.check.raised, raised |-> f.exc.raised,
   requested |-> f.requested, after_denial |-> after_denial]

\* ------------------------------------------------ static knowledge tables
\* Scores are kept in hundredths of a point: 12.0 is 1200.
ParamCodes == <<"academic", "graduate", "roi", "fsr", "transparency", "visibility">>

parameters == [academic |-> 2500, graduate |-> 2500, roi |-> 2000,
               fsr |-> 1500, transparency |-> 1000, visibility |-> 500]

Scores(a, g, r, f, t, v) ==
  [academic |-> a, graduate |-> g, roi |-> r, fsr |-> f,
   transparency |-> t, visibility |-> v]

\* load_university_database
university_db ==
  LET Entry(c, a, g, r, f, t, v) == [country |-> c, scores |-> Scores(a, g, r, f, t, v)]
  IN  ("bryant university" :> Entry("USA", 1200, 2200, 1600, 1300, 800, 300))
   @@ ("massachusetts institute of technology"
         :> Entry("USA", 2500, 2400, 2200, 1400, 900, 500))
   @@ ("harvard university" :> Entry("USA", 2500, 2400, 2000, 1300, 1000, 500))
   @@ ("stanford university" :> Entry("USA", 2400, 2300, 2100, 1400, 900, 500))
   @@ ("university of toronto" :> Entry("Canada", 2200, 2100, 1800, 1300, 900, 400))
   @@ ("university of oxford" :> Entry("UK", 2500, 2400, 1900, 1400, 1000, 500))
   @@ ("conestoga college" :> Entry("Canada", 400, 2000, 1800, 1300, 700, 400))
   @@ ("algonquin college" :> Entry("Canada", 400, 1900, 1700, 1200, 600, 300))
   @@ ("north dakota state university"
         :> Entry("USA", 1600, 1500, 1600, 1100, 900, 400))
   @@ ("university of tokyo" :> Entry("Japan", 2300, 2100, 1800, 1300, 800, 400))
   @@ ("university of sydney" :> Entry("Australia", 2100, 2000, 1700, 1200, 800, 400))
   @@ ("community college of philadelphia"
         :> Entry("USA", 300, 1600, 1800, 1100, 500, 200))
   @@ ("california institute of technology"
         :> Entry("USA", 2500, 2400, 2300, 1400, 900, 500))
   @@ ("university of cape town"
         :> Entry("South Africa", 1800, 1700, 1500, 1100, 700, 300))

\* load_qs_rankings / load_the_rankings, the entries of the modelled names
qs_rankings ==
  [n \in {"harvard university", "massachusetts institute of technology"} |->
     IF n = "harvard university" THEN 4 ELSE 1]

the_rankings ==
  [n \in {"harvard university", "massachusetts institute of technology"} |->
     IF n = "harvard university" THEN 2 ELSE 5]

\* country_multipliers, in percent, for the modelled countries: those whose
\* multiplier keeps every product on a whole tenth, so that round(v, 1) never
\* meets a half
country_multipliers ==
  ("USA" :> 120) @@ ("GERMANY" :> 110) @@ ("CHINA" :> 90)
  @@ ("PORTUGAL" :> 90) @@ ("GLOBAL" :> 100)

\* str.upper() on the countries of the model
upper(s) ==
  CASE s \in {"USA", "usa"} -> "USA"
    [] s = "Germany"        -> "GERMANY"
    [] s = "China"          -> "CHINA"
    [] s = "Portugal"       -> "PORTUGAL"
    [] s = "Atlantis"       -> "ATLANTIS"
    [] OTHER                -> s

\* `word in name_lower` for the keywords the code looks for
KeywordsIn(name_lower) ==
  CASE name_lower = "harvard university" -> {"harvard", "university"}
    [] name_lower = "bryant university"  -> {"university"}
    [] name_lower = "acme institute"     -> {"institute"}
    [] name_lower = "massachusetts institute of technology"
         -> {"massachusetts institute", "institute", "institute of technology",
             "technology", "tech"}
    [] name_lower = "mit"                 -> {"mit"}
    [] name_lower = "stanford university" -> {"stanford", "university"}
    [] name_lower = "conestoga college"   -> {"college"}
    [] name_lower = "algonquin college"   -> {"college"}
    [] name_lower = "harvard business school" -> {"business school", "harvard"}
    [] name_lower = "state technical institute"
         -> {"institute", "state", "tech", "technical"}
    [] name_lower = "generic university"  -> {"university"}
    [] OTHER                             -> {}

\* int(md5(name_lower)[:8], 16), of which _add_meaningful_variation reads the
\* low 24 bits: kept modulo 2^24
hash_int(name_lower) ==
  CASE name_lower = "harvard university" -> 4533288
    [] name_lower = "bryant university"  -> 1230221
    [] name_lower = "acme institute"     -> 7290930
    [] name_lower = "massachusetts institute of technology" -> 6312951
    [] name_lower = "mit"                 -> 15006607
    [] name_lower = "stanford university" -> 4343545
    [] name_lower = "conestoga college"   -> 3931728
    [] name_lower = "algonquin college"   -> 3302010
    [] name_lower = "harvard business school"   -> 15750491
    [] name_lower = "state technical institute" -> 8671881
    [] name_lower = "generic university"  -> 10019192
    [] OTHER                             -> 0

AnyIn(words, name_lower) == words \cap KeywordsIn(name_lower) # {}

Min(a, b) == IF a < b THEN a ELSE b
Max(a, b) == IF a > b THEN a ELSE b

\* round(v, 1) on hundredths; the modelled inputs produce no exact halves
round1(v) == ((v + 5) \div 10) * 10

\* ------------------------------------------------------ score estimation
classify_university_type(name) ==
  LET n == lower(name) IN
  IF AnyIn({"business school", "medical school", "law school"}, n)
  THEN "SPECIALIST_SCHOOL"
  ELSE IF AnyIn({"college", "community college", "polytechnic"}, n)
  THEN "COLLEGE_POLYTECHNIC"
  ELSE IF AnyIn({"technical", "applied", "technology"}, n)
  THEN "APPLIED_UNIVERSITY"
  ELSE IF "university" \in KeywordsIn(n)
  THEN IF AnyIn({"research", "institute", "tech"}, n)
       THEN "RESEARCH_UNIVERSITY" ELSE "TEACHING_UNIVERSITY"
  ELSE "TEACHING_UNIVERSITY"

classify_university_type_by_name(n) ==
  IF AnyIn({"business school", "medical school", "law school",
          "dental school", "nursing school", "art school"}, n)
  THEN "SPECIALIST_SCHOOL"
  ELSE IF AnyIn({"community college", "technical college",
               "vocational college", "career college"}, n)
  THEN "COLLEGE_POLYTECHNIC"
  ELSE IF AnyIn({"college", "polytechnic", "institute of technology"}, n)
  THEN "COLLEGE_POLYTECHNIC"
  ELSE IF AnyIn({"technical", "applied", "technology", "engineering"}, n)
  THEN IF "university" \in KeywordsIn(n)
       THEN "APPLIED_UNIVERSITY" ELSE "COLLEGE_POLYTECHNIC"
  ELSE IF "university" \in KeywordsIn(n)
  THEN IF AnyIn({"research", "institute", "tech", "polytechnic",
               "state", "national", "federal"}, n)
       THEN "RESEARCH_UNIVERSITY" ELSE "TEACHING_UNIVERSITY"
  ELSE "TEACHING_UNIVERSITY"

_get_base_scores_by_type(n) ==
  LET uni_type == classify_university_type_by_name(n) IN
  CASE uni_type = "RESEARCH_UNIVERSITY" -> Scores(1800, 1700, 1500, 1100, 800, 400)
    [] uni_type = "COLLEGE_POLYTECHNIC" -> Scores(600, 1600, 1600, 1000, 600, 200)
    [] uni_type = "APPLIED_UNIVERSITY"  -> Scores(1000, 1800, 1700, 1100, 700, 300)
    [] uni_type = "SPECIALIST_SCHOOL"   -> Scores(1400, 1900, 1600, 1100, 700, 300)
    [] OTHER                            -> Scores(1200, 1500, 1400, 1100, 700, 300)

\* exact match, else 1.0: no modelled country is a part of a table key
_get_country_multiplier(country_upper) ==
  IF country_upper \in DOMAIN country_multipliers
  THEN country_multipliers[country_upper] ELSE 100

_apply_name_pattern_adjustments(n, s) ==
  IF AnyIn({"harvard", "stanford", "mit", "massachusetts institute", "oxford",
          "cambridge", "caltech", "princeton", "yale"}, n)
  THEN Scores(2500, 2400, 2200, 1400, 1000, 500)
  ELSE IF AnyIn({"columbia", "cornell", "dartmouth", "brown", "upenn",
               "imperial college", "university college london", "eth zurich"}, n)
  THEN Scores(2400, 2300, 2100, 1300, 900, 500)
  ELSE IF AnyIn({"university of california", "ucla", "uc berkeley", "umich",
               "university of michigan", "university of texas", "ut austin"}, n)
  THEN Scores(2200, 2100, 1900, 1200, 800, 400)
  ELSE IF AnyIn({"state university", "state uni"}, n)
  THEN [s EXCEPT !.academic = @ + 300, !.roi = @ + 200,
                 !.transparency = @ + 100, !.visibility = @ + 100]
  ELSE IF "university" \in KeywordsIn(n) /\ "state" \notin KeywordsIn(n)
  THEN [s EXCEPT !.academic = @ + 200, !.visibility = @ + 100]
  ELSE IF "college" \in KeywordsIn(n) /\ "university" \notin KeywordsIn(n)
  THEN [s EXCEPT !.graduate = @ + 300, !.roi = @ + 200, !.fsr = @ + 200]
  ELSE IF AnyIn({"international", "global", "world"}, n)
  THEN [s EXCEPT !.visibility = @ + 100, !.transparency = @ + 100]
  ELSE s

\* the multiplier is not applied
ApplyCountry_ignored(s, mult) == s

ApplyCountry(s, mult) ==
  [k \in DOMAIN s |->
     IF k \in {"academic", "graduate", "roi", "fsr"}
     THEN Min(parameters[k], (s[k] * mult) \div 100) ELSE s[k]]

RECURSIVE Pow16(_)
Pow16(i) == IF i = 0 THEN 1 ELSE 16 * Pow16(i - 1)

_add_meaningful_variation(n, s) ==
  [k \in DOMAIN s |->
     LET i == CHOOSE j \in 1..6 : ParamCodes[j] = k
         hash_part == (hash_int(n) \div Pow16(i - 1)) % 16
     IN  s[k] + (IF k \in {"academic", "graduate"} THEN hash_part * 60 - 450
                 ELSE IF k \in {"transparency", "visibility"}
                 THEN hash_part * 20 - 150
                 ELSE hash_part * 40 - 300)]

_ensure_score_bounds(s) ==
  [k \in DOMAIN s |-> Max(0, Min(parameters[k], s[k]))]

estimate_scores(name, country) ==
  LET n == lower(name)
      country_upper == IF country # "" THEN upper(country) ELSE "GLOBAL"
      adjusted == _apply_name_pattern_adjustments(n, _get_base_scores_by_type(n))
      varied == _add_meaningful_variation(
                  n, ApplyCountry(adjusted, _get_country_multiplier(country_upper)))
      final_scores == _ensure_score_bounds(varied)
  IN  [k \in DOMAIN final_scores |-> round1(final_scores[k])]

\* a sum that leaves the last field out
calculate_composite_score_five(scores) ==
  round1(scores.academic + scores.graduate + scores.roi + scores.fsr
         + scores.transparency)

\* round(sum(scores.values()), 1), in hundredths
calculate_composite_score(scores) ==
  round1(scores.academic + scores.graduate + scores.roi + scores.fsr
         + scores.transparency + scores.visibility)

\* self.tiers in the order of the dict, bounds in ten-thousandths of a point:
\* 84.999 is 849990
tiers ==
  << [tier |-> "A+", low |-> 850000, high |-> 1000000],
     [tier |-> "A",  low |-> 750000, high |-> 849990],
     [tier |-> "B",  low |-> 650000, high |-> 749990],
     [tier |-> "C+", low |-> 550000, high |-> 649990],
     [tier |-> "C",  low |-> 450000, high |-> 549990],
     [tier |-> "D",  low |-> 0,      high |-> 449990] >>

\* get_tier of the bot modules: the first range that holds the score, else D;
\* the score is in ten-thousandths of a point
get_tier(score) ==
  LET hits == {i \in 1..Len(tiers) : tiers[i].low <= score /\ score <= tiers[i].high}
  IN  IF hits = {} THEN "D"
      ELSE tiers[CHOOSE i \in hits : \A j \in hits : i <= j].tier

\* np.random.uniform(lo, hi) is a choice; a draw is the end of the interval it
\* takes: "low" or "high"
Draws == {"low", "high"}

uniform_between(lo, hi, draw) == IF draw = "low" THEN lo ELSE hi

\* calculate_error_margin, in hundredths of a point; the intermediate
\* base_error is kept in ten-thousandths, divisions truncated
calculate_error_margin(university_name, country, data_sources_used, draw) ==
  LET name_lower == lower(university_name)
      uses(api) == \E i \in 1..Len(data_sources_used) : data_sources_used[i] = api
      b0 == IF uses("wikipedia") THEN 50000 ELSE 100000
      b1 == IF Len(data_sources_used) >= 2 THEN (b0 * 7) \div 10 ELSE b0
      b2 == IF country # ""
            THEN (b1 * 100) \div (IF upper(country) \in DOMAIN country_multipliers
                                   THEN country_multipliers[upper(country)]
                                   ELSE 100)
            ELSE b1
      b3 == IF "university" \in KeywordsIn(name_lower) THEN (b2 * 9) \div 10
            ELSE IF "college" \in KeywordsIn(name_lower) THEN (b2 * 11) \div 10
            ELSE b2
      base_error == b3 \div 100
  IN  IF name_lower \in DOMAIN university_db
      THEN round1(uniform_between(100, 300, draw))
      ELSE round1(Min(1500, Max(300, base_error + uniform_between(-200, 200, draw))))

\* a reduction without the floor of 1.0
reduce_error_margin_unfloored(error_margin, data_sources_used) ==
  IF data_sources_used # <<>> THEN (error_margin * 7) \div 10 ELSE error_margin

\* rank_university: "lower error margin if we have real data"
reduce_error_margin(error_margin, data_sources_used) ==
  IF data_sources_used # <<>>
  THEN Max(100, (error_margin * 7) \div 10) ELSE error_margin

\* all_data of fetch_all_data / fetch_real_data, one field per key of the dict;
\* "none", FALSE, <<>> and 0 stand for an absent key.  The fetched text is
\* not kept: a Wikipedia page is "page", or "page_rich" when its summary has
\* at least three research words and two employment words
EmptyData == [wikipedia |-> "none", google_search |-> FALSE, webometrics |-> FALSE,
              data_sources_used |-> <<>>, qs_ranking |-> 0, the_ranking |-> 0]

\* bool(all_data)
NonEmpty(d) ==
  \/ d.wikipedia # "none" \/ d.google_search \/ d.webometrics
  \/ d.data_sources_used # <<>> \/ d.qs_ranking # 0 \/ d.the_ranking # 0

calculate_scores_from_real_data(name, country, real_data) ==
  LET s0 == Scores(1200, 1500, 1400, 1100, 700, 300)
      qs == real_data.qs_ranking
      s1 == IF qs = 0 THEN s0
            ELSE IF qs <= 10
            THEN [s0 EXCEPT !.academic = 2500, !.graduate = 2400, !.visibility = 500]
            ELSE IF qs <= 50
            THEN [s0 EXCEPT !.academic = 2200, !.graduate = 2100, !.visibility = 450]
            ELSE IF qs <= 100
            THEN [s0 EXCEPT !.academic = 2000, !.graduate = 1900, !.visibility = 400]
            ELSE IF qs <= 200
            THEN [s0 EXCEPT !.academic = 1800, !.graduate = 1700, !.visibility = 350]
            ELSE s0
      the == real_data.the_ranking
      s2 == IF the = 0 THEN s1
            ELSE IF the <= 10
            THEN [s1 EXCEPT !.academic = Max(@, 2400), !.transparency = Max(@, 900)]
            ELSE IF the <= 100
            THEN [s1 EXCEPT !.academic = Max(@, (@ * 110) \div 100)]
            ELSE s1
      rich == real_data.wikipedia = "page_rich"
      s3 == IF rich
            THEN [s2 EXCEPT !.academic = Min(2500, @ + 300),
                            !.graduate = Min(2500, @ + 200)]
            ELSE s2
      s4 == IF country # ""
            THEN ApplyCountry(s3, IF upper(country) \in DOMAIN country_multipliers
                                  THEN country_multipliers[upper(country)] ELSE 100)
            ELSE s3
      uni_type == classify_university_type(name)
      s5 == IF uni_type = "RESEARCH_UNIVERSITY"
            THEN [s4 EXCEPT !.academic = Min(2500, @ + 300)]
            ELSE IF uni_type = "COLLEGE_POLYTECHNIC"
            THEN [s4 EXCEPT !.graduate = Min(2500, @ + 200),
                            !.roi = Min(2000, @ + 200)]
            ELSE s4
  IN  [k \in DOMAIN s5 |-> round1(s5[k])]

\* ------------------------------------------------------------- requests
\* a key that keeps the spelling of the country
cache_key_exact(university_name, country) ==
  lower(university_name) \o "_" \o country

cache_key(university_name, country) ==
  lower(university_name) \o "_" \o lower(country)

NoRequest == [university_name |-> "", country |-> "",
              user_config |-> [enable_wikipedia |-> FALSE,
                               enable_google_search |-> FALSE,
                               enable_webometrics |-> FALSE]]

NoResult == [name |-> "", country |-> "", scores |-> Scores(0, 0, 0, 0, 0, 0),
             composite |-> 0, tier |-> "", error_margin |-> 0,
             is_estimated |-> FALSE, scoring |-> "", data_sources_used |-> <<>>,
             rate_limit_info |-> <<>>, real_data |-> EmptyData]

\* no tier classification is asked for
TierIdle == tier_score = 0 /\ tier_bot = "" /\ tier_rank = ""

\* no estimate is asked for
EstimateIdle == est_input = <<"", "">> /\ est_results = <<>>

\* the ranking system after construction: no request yet
RequestsIdle ==
  /\ now = 0
  /\ calls = [s \in Sources |-> <<>>]
  /\ real_data_cache = [k \in {} |-> 0]
  /\ pc = "idle"
  /\ req = NoRequest
  /\ all_data = EmptyData
  /\ rate_limit_info = <<>>
  /\ qi = 1
  /\ cache_hit = FALSE
  /\ result = NoResult
  /\ served = 0
  /\ attempt = NoAttempt
  /\ visited = <<>>
  /\ denied = {}
  /\ start_calls = calls
  /\ produced = [k \in {} |-> 0]

\* no batch job
BatchIdle ==
  /\ job = ""
  /\ total_universities = 0
  /\ idx = 1
  /\ job_pc = ""
  /\ cancelled = FALSE
  /\ result_df = <<>>
  /\ processed_count = 0
  /\ progress_queue = <<>>
  /\ failed = {}
  /\ cancel_seen = FALSE

\* an event that is no event
NoEvent == [handler |-> "", user_id |-> 0, data |-> ""]

\* nobody talks to the bot
ConfigIdle ==
  /\ bot = ""
  /\ user_configurations = [u \in {} |-> 0]
  /\ user_states = [u \in {} |-> ""]
  /\ last_event = NoEvent

\* no concurrent fetches
NoRetry == [permitted |-> [s \in Sources |-> <<>>], tries |-> 0]

\* no batch job of a Telegram user
ExcelIdle ==
  /\ user_excel_processing = [u \in {} |-> 0]
  /\ excel_threads = <<>>

\* no WhatsApp conversation under way
ChatIdle ==
  /\ state_data = [u \in {} |-> ""]
  /\ rankings = <<>>

ExtraIdle == threads = <<>> /\ retry = NoRetry /\ ExcelIdle /\ ChatIdle

Init ==
  RequestsIdle /\ TierIdle /\ EstimateIdle /\ BatchIdle /\ ConfigIdle /\ ExtraIdle

\* a minute passes; a request is short against it and sees one `now`
Tick(horizon) ==
  /\ pc = "idle"
  /\ now < horizon
  /\ now' = now + 1
  /\ UNCHANGED <<calls, real_data_cache, pc, req, all_data, rate_limit_info,
                 qi, cache_hit, result, served, attempt, visited, denied, start_calls,
                 produced>>
  /\ UNCHANGED other_vars

\* rank_university up to the cache lookup of fetch_real_data
RankUniversity(university_name, country, user_config) ==
  /\ pc = "idle"
  /\ served' = served + 1
  /\ req' = [university_name |-> university_name, country |-> country,
             user_config |-> user_config]
  /\ LET k == cache_key(university_name, country) IN
     IF k \in DOMAIN real_data_cache
     THEN /\ all_data' = real_data_cache[k].data
          /\ rate_limit_info' =
               Append(real_data_cache[k].info,
                      [api |-> "cache", status |-> "hit", reset_time |-> 0])
          /\ cache_hit' = TRUE
          /\ pc' = "finish"
     ELSE /\ all_data' = EmptyData
          /\ rate_limit_info' = <<>>
          /\ cache_hit' = FALSE
          /\ pc' = "wikipedia"
  /\ qi' = 1
  /\ result' = NoResult
  /\ attempt' = NoAttempt
  /\ visited' = <<>>
  /\ denied' = {}
  /\ start_calls' = calls
  /\ UNCHANGED <<now, calls, real_data_cache, produced>>
  /\ UNCHANGED other_vars

\* what a fetcher call leaves behind in the tracker and in the histories
Called(api, f) ==
  /\ calls' = [calls EXCEPT ![api] = record_calls(@, now, f.nrecords)]
  /\ attempt' = Attempt(api, f, now, calls[api],
                         \E d \in denied : d.api = api)
  /\ visited' = Append(visited, api)
  /\ denied' = IF f.check.raised THEN denied \cup {f.check} ELSE denied

\* the outcomes the outside world can give to a call; none when the check fails
Outcomes(api, all) ==
  IF check_rate_limit(api, calls[api], now).raised THEN {"not_requested"} ELSE all

\* fetch_all_data: the Wikipedia block
FetchWikipedia ==
  /\ pc = "wikipedia"
  /\ enabled(req.user_config, "wikipedia")
  /\ \E o \in Outcomes("wikipedia", WikiOutcomes) :
       LET f == safe_fetch_wikipedia(o, calls["wikipedia"], now) IN
       /\ Called("wikipedia", f)
       /\ all_data' =
            IF f.data # "none"
            THEN [all_data EXCEPT !.wikipedia = f.data,
                                  !.data_sources_used = Append(@, "wikipedia")]
            ELSE all_data
       /\ rate_limit_info' =
            IF f.exc.raised THEN Append(rate_limit_info, rate_limited_note(f.exc))
            ELSE IF f.data # "none"
            THEN Append(rate_limit_info, get_api_status("wikipedia"))
            ELSE rate_limit_info
  /\ pc' = "google"
  /\ UNCHANGED <<now, real_data_cache, req, qi, cache_hit, result, served,
                 start_calls, produced>>
  /\ UNCHANGED other_vars

SkipWikipedia ==
  /\ pc = "wikipedia"
  /\ ~enabled(req.user_config, "wikipedia")
  /\ pc' = "google"
  /\ UNCHANGED <<now, calls, real_data_cache, req, all_data, rate_limit_info,
                 qi, cache_hit, result, served, attempt, visited, denied, start_calls,
                 produced>>
  /\ UNCHANGED other_vars

\* fetch_all_data: one iteration of the Google query loop, and, after the
\* last one or a break, the lines that follow the loop
GoogleQuery ==
  /\ pc = "google"
  /\ enabled(req.user_config, "google_search")
  /\ \E o \in Outcomes("google_search", GoogleOutcomes) :
       LET f == safe_google_search(o, calls["google_search"], now)
           google_results == all_data.google_search \/ f.data = "links"
           last == f.exc.raised \/ qi = NumQueries
       IN
       /\ Called("google_search", f)
       /\ rate_limit_info' =
            IF f.exc.raised THEN Append(rate_limit_info, rate_limited_note(f.exc))
            ELSE Append(rate_limit_info, get_api_status("google_search"))
       /\ all_data' =
            [all_data EXCEPT
               !.google_search = google_results,
               !.data_sources_used =
                  IF last /\ google_results
                  THEN Append(@, "google_search") ELSE @]
       /\ qi' = IF last THEN 1 ELSE qi + 1
       /\ pc' = IF last THEN "webometrics" ELSE "google"
  /\ UNCHANGED <<now, real_data_cache, req, cache_hit, result, served,
                 start_calls, produced>>
  /\ UNCHANGED other_vars

SkipGoogle ==
  /\ pc = "google"
  /\ ~enabled(req.user_config, "google_search")
  /\ pc' = "webometrics"
  /\ UNCHANGED <<now, calls, real_data_cache, req, all_data, rate_limit_info,
                 qi, cache_hit, result, served, attempt, visited, denied, start_calls,
                 produced>>
  /\ UNCHANGED other_vars

\* fetch_all_data: the Webometrics block
FetchWebometrics ==
  /\ pc = "webometrics"
  /\ enabled(req.user_config, "webometrics")
  /\ \E o \in Outcomes("webometrics", WebOutcomes) :
       LET f == safe_fetch_webometrics(o, calls["webometrics"], now) IN
       /\ Called("webometrics", f)
       /\ all_data' =
            IF f.data # "none"
            THEN [all_data EXCEPT !.webometrics = TRUE,
                                  !.data_sources_used = Append(@, "webometrics")]
            ELSE all_data
       /\ rate_limit_info' =
            IF f.exc.raised THEN Append(rate_limit_info, rate_limited_note(f.exc))
            ELSE IF f.data # "none"
            THEN Append(rate_limit_info, get_api_status("webometrics"))
            ELSE rate_limit_info
  /\ pc' = "finish"
  /\ UNCHANGED <<now, real_data_cache, req, qi, cache_hit, result, served,
                 start_calls, produced>>
  /\ UNCHANGED other_vars

SkipWebometrics ==
  /\ pc = "webometrics"
  /\ ~enabled(req.user_config, "webometrics")
  /\ pc' = "finish"
  /\ UNCHANGED <<now, calls, real_data_cache, req, all_data, rate_limit_info,
                 qi, cache_hit, result, served, attempt, visited, denied, start_calls,
                 produced>>
  /\ UNCHANGED other_vars

\* fetch_real_data after fetch_all_data: the static ranking tables
MergeRankings(d, name_lower) ==
  [d EXCEPT !.qs_ranking = IF name_lower \in DOMAIN qs_rankings
                           THEN qs_rankings[name_lower] ELSE @,
            !.the_ranking = IF name_lower \in DOMAIN the_rankings
                            THEN the_rankings[name_lower] ELSE @]

MergeInfo(info, name_lower) ==
  LET i1 == IF name_lower \in DOMAIN qs_rankings
            THEN Append(info, [api |-> "qs_rankings", status |-> "cache",
                               reset_time |-> 0])
            ELSE info
  IN  IF name_lower \in DOMAIN the_rankings
      THEN Append(i1, [api |-> "the_rankings", status |-> "cache",
                       reset_time |-> 0])
      ELSE i1

\* fetch_real_data: is the payload written to the cache
ShouldCache(d) == NonEmpty(d)

Put(f, k, v) == [x \in DOMAIN f \cup {k} |-> IF x = k THEN v ELSE f[x]]

\* a choice that never consults the knowledge base
ScoringPath_no_db(name_lower, real_data) ==
  IF NonEmpty(real_data) /\ real_data.data_sources_used # <<>> THEN "real_data"
  ELSE "estimation"

\* the knowledge base tried before the fetched data
ScoringPath_db_first(name_lower, real_data) ==
  IF name_lower \in DOMAIN university_db THEN "database"
  ELSE IF NonEmpty(real_data) /\ real_data.data_sources_used # <<>> THEN "real_data"
  ELSE "estimation"

\* rank_university: the choice of the scoring path
ScoringPath(name_lower, real_data) ==
  IF NonEmpty(real_data) /\ real_data.data_sources_used # <<>> THEN "real_data"
  ELSE IF name_lower \in DOMAIN university_db THEN "database"
  ELSE "estimation"

\* the caller's country kept on every path
ResultCountry_given(path, name_lower, country) == country

\* rank_university: the country of the result
ResultCountry(path, name_lower, country) ==
  IF path = "database" THEN university_db[name_lower].country ELSE country

\* the case-folded (name, country) of a request
FoldedKey(university_name, country) == <<lower(university_name), lower(country)>>

\* the rest of fetch_real_data and of rank_university
FinishRank ==
  /\ pc = "finish"
  /\ \E draw \in Draws :
     LET name_lower == lower(req.university_name)
         k == cache_key(req.university_name, req.country)
         real_data == IF cache_hit THEN all_data
                      ELSE MergeRankings(all_data, name_lower)
         info == IF cache_hit THEN rate_limit_info
                 ELSE MergeInfo(rate_limit_info, name_lower)
         path == ScoringPath(name_lower, real_data)
         scores == CASE path = "real_data" ->
                          calculate_scores_from_real_data(
                            req.university_name, req.country, real_data)
                     [] path = "database" -> university_db[name_lower].scores
                     [] OTHER -> estimate_scores(req.university_name, req.country)
         composite == calculate_composite_score(scores)
         country == ResultCountry(path, name_lower, req.country)
     IN
     /\ real_data_cache' =
          IF ~cache_hit /\ ShouldCache(real_data)
          THEN Put(real_data_cache, k, [data |-> real_data, info |-> info])
          ELSE real_data_cache
     /\ produced' =
          LET fk == FoldedKey(req.university_name, req.country) IN
          IF NonEmpty(real_data) /\ fk \notin DOMAIN produced
          THEN Put(produced, fk, real_data) ELSE produced
     /\ result' =
          [name |-> req.university_name,
           country |-> country,
           scores |-> scores,
           composite |-> composite,
           tier |-> get_tier(composite * 100),
           error_margin |->
             reduce_error_margin(
               calculate_error_margin(req.university_name, country,
                                      real_data.data_sources_used, draw),
               real_data.data_sources_used),
           is_estimated |-> (path = "estimation"),
           scoring |-> path,
           data_sources_used |-> real_data.data_sources_used,
           rate_limit_info |-> info,
           real_data |-> real_data]
  /\ pc' = "done"
  /\ UNCHANGED <<now, calls, req, all_data, rate_limit_info, qi, cache_hit,
                 served, attempt, visited, denied, start_calls>>
  /\ UNCHANGED other_vars

\* the caller takes the result; the next request can start
Deliver ==
  /\ pc = "done"
  /\ pc' = "idle"
  /\ req' = NoRequest
  /\ all_data' = EmptyData
  /\ rate_limit_info' = <<>>
  /\ cache_hit' = FALSE
  /\ result' = NoResult
  /\ attempt' = NoAttempt
  /\ visited' = <<>>
  /\ denied' = {}
  /\ start_calls' = calls
  /\ UNCHANGED <<now, calls, real_data_cache, qi, served, produced>>
  /\ UNCHANGED other_vars

\* Every request with every configuration, one request deep.
Next ==
  \/ Tick(MaxTime)
  \/ /\ served < MaxRequests
     /\ \E i \in Inputs, cfg \in Configs : RankUniversity(i[1], i[2], cfg)
  \/ FetchWikipedia
  \/ SkipWikipedia
  \/ GoogleQuery
  \/ SkipGoogle
  \/ FetchWebometrics
  \/ SkipWebometrics
  \/ FinishRank
  \/ Deliver

Spec == Init /\ [][Next]_vars

\* Repeated requests for the same and for another cache key.
NextCache ==
  \/ Tick(MaxTime)
  \/ /\ served < CacheRequests
     /\ \E i \in CacheInputs, cfg \in SingleConfigs :
          RankUniversity(i[1], i[2], cfg)
  \/ FetchWikipedia
  \/ SkipWikipedia
  \/ GoogleQuery
  \/ SkipGoogle
  \/ FetchWebometrics
  \/ SkipWebometrics
  \/ FinishRank
  \/ Deliver

SpecCache == Init /\ [][NextCache]_vars

\* Requests that fill the rate windows of one source and let them drain.
NextLimiter ==
  \/ Tick(LimiterTime)
  \/ /\ served < LimiterRequests
     /\ \E i \in LimiterInputs, cfg \in LimiterConfigs :
          RankUniversity(i[1], i[2], cfg)
  \/ FetchWikipedia
  \/ SkipWikipedia
  \/ GoogleQuery
  \/ SkipGoogle
  \/ FetchWebometrics
  \/ SkipWebometrics
  \/ FinishRank
  \/ Deliver

SpecLimiter == Init /\ [][NextLimiter]_vars

\* --------------------------------------------------------- tier classifier
\* get_tier of rank.py: thresholds, the score in ten-thousandths of a point
rank_get_tier(score) ==
  IF score >= 850000 THEN "A+"
  ELSE IF score >= 750000 THEN "A"
  ELSE IF score >= 650000 THEN "B"
  ELSE IF score >= 550000 THEN "C+"
  ELSE IF score >= 450000 THEN "C"
  ELSE "D"

\* the scores classified: every tenth of a point of [0, 100], and the
\* FineSteps ten-thousandths below each boundary between two tiers
TierInputs ==
  {k * 1000 : k \in 0..(tiers[1].high \div 1000)}
    \cup {tiers[i].low - d : i \in 1..(Len(tiers) - 1), d \in 1..FineSteps}

InitTier ==
  /\ ExtraIdle
  /\ ConfigIdle
  /\ RequestsIdle
  /\ EstimateIdle
  /\ BatchIdle
  /\ tier_score \in TierInputs
  /\ tier_bot = ""
  /\ tier_rank = ""

\* both classifiers are applied to the score
Classify ==
  /\ tier_bot = ""
  /\ tier_bot' = get_tier(tier_score)
  /\ tier_rank' = rank_get_tier(tier_score)
  /\ UNCHANGED <<tier_score, request_vars, est_vars, batch_vars, config_vars, extra_vars>>

NextTier == Classify

SpecTier == InitTier /\ [][NextTier]_vars

\* ------------------------------------------- estimate_scores, both modules
\* np.random.uniform(-w, w) is a choice; its two ends stand for the interval
uniform(w) == {-w, w}

\* the six draws of one estimate_scores call of the WhatsApp module
Variations ==
  [academic : uniform(200), graduate : uniform(200), roi : uniform(200),
   fsr : uniform(200), transparency : uniform(50), visibility : uniform(50)]

\* estimate_scores of pkWAUniRankBot.py, given the draws of np.random
wa_estimate_scores(name, country, variation) ==
  LET n == lower(name)
      country_upper == IF country # "" THEN upper(country) ELSE "GLOBAL"
      has(w) == w \in KeywordsIn(n)
      base == Scores(1200, 1500, 1400, 1100, 700, 300)
      s1 == IF has("mit") \/ has("massachusetts institute")
            THEN Scores(2400, 2300, 2200, 1400, 900, 500)
            ELSE IF has("harvard") THEN Scores(2500, 2400, 2000, 1300, 1000, 500)
            ELSE IF has("stanford") THEN Scores(2400, 2300, 2100, 1400, 900, 500)
            ELSE IF has("oxford") \/ has("cambridge")
            THEN Scores(2500, 2400, 1900, 1400, 1000, 500)
            ELSE IF has("university") /\ has("state")
            THEN [base EXCEPT !.academic = 1500, !.roi = 1600,
                              !.transparency = 900, !.visibility = 400]
            ELSE IF has("university")
            THEN [base EXCEPT !.academic = 1800, !.visibility = 400,
                              !.transparency = 800]
            ELSE IF has("college")
            THEN [base EXCEPT !.graduate = 1700, !.roi = 1600, !.fsr = 1200,
                              !.academic = 800]
            ELSE base
      s2 == IF country_upper # "GLOBAL"
            THEN ApplyCountry(s1, IF country_upper \in DOMAIN country_multipliers
                                  THEN country_multipliers[country_upper] ELSE 100)
            ELSE s1
      s3 == [k \in DOMAIN s2 |-> Max(0, Min(parameters[k], s2[k] + variation[k]))]
  IN  [k \in DOMAIN s3 |-> round1(s3[k])]

\* names without knowledge-base entry, with and without a country
EstimateInputs == {<<"Acme Institute", "USA">>, <<"Acme Institute", "">>}

InitEstimate ==
  /\ ExtraIdle
  /\ ConfigIdle
  /\ RequestsIdle
  /\ TierIdle
  /\ BatchIdle
  /\ est_input \in EstimateInputs
  /\ est_results = <<>>

\* one more call of estimate_scores(name, country) in each module
CallEstimate ==
  /\ Len(est_results) < EstimateCalls
  /\ \E variation \in Variations :
       est_results' =
         Append(est_results,
                [telegram |-> estimate_scores(est_input[1], est_input[2]),
                 whatsapp |-> wa_estimate_scores(est_input[1], est_input[2],
                                                 variation)])
  /\ UNCHANGED <<est_input, request_vars, tier_vars, batch_vars, config_vars, extra_vars>>

NextEstimate == CallEstimate

SpecEstimate == InitEstimate /\ [][NextEstimate]_vars

\* --------------------------- estimate_scores by country, type classification
\* the names of the authors' classification test, and a name without keywords
EstimateNames ==
  {"Harvard University", "MIT", "Stanford University", "Conestoga College",
   "Algonquin College", "Harvard Business School", "State Technical Institute",
   "Generic University", "Acme Institute"}

\* two countries of one multiplier, three of other multipliers, a country
\* that is not in the table, and no country
EstimateCountries == {"USA", "Germany", "China", "Portugal", "Atlantis", ""}

InitNames ==
  /\ ExtraIdle
  /\ ConfigIdle
  /\ RequestsIdle
  /\ TierIdle
  /\ BatchIdle
  /\ est_input \in {<<name, "">> : name \in EstimateNames}
  /\ est_results = <<>>

\* the name is classified and its scores are estimated under one more country
EstimateUnder ==
  /\ Len(est_results) < EstimateCalls
  /\ \E country \in EstimateCountries :
       est_results' =
         Append(est_results,
                [country |-> country,
                 uni_type |-> classify_university_type(est_input[1]),
                 scores |-> estimate_scores(est_input[1], country)])
  /\ UNCHANGED <<est_input, request_vars, tier_vars, batch_vars, config_vars, extra_vars>>

NextNames == EstimateUnder

SpecNames == InitNames /\ [][NextNames]_vars

\* ----------------------------------------------------------- batch jobs
\* what rank_university does for a row: a result with one of two composites,
\* or an exception
RowOutcomes ==
  {[raised |-> FALSE, composite |-> 7400, is_estimated |-> FALSE],
   [raised |-> FALSE, composite |-> 9700, is_estimated |-> TRUE],
   [raised |-> TRUE, composite |-> 0, is_estimated |-> FALSE]}

\* a row of result_df after "Prepare new columns"; row is its place in the input
NewRow(i) == [row |-> i, global_score |-> 0, global_rank |-> 0,
              data_source |-> "Estimated", error |-> ""]

\* df.head(n)
head(df, n) == SubSeq(df, 1, Min(n, Len(df)))

\* the place of the row that comes first by descending Global Score
First(df) ==
  CHOOSE i \in 1..Len(df) :
    \A j \in 1..Len(df) :
      \/ df[i].global_score > df[j].global_score
      \/ (df[i].global_score = df[j].global_score /\ i <= j)

Without(df, i) == SubSeq(df, 1, i - 1) \o SubSeq(df, i + 1, Len(df))

\* df.sort_values(by='Global Score', ascending=False)
RECURSIVE sort_values(_)
sort_values(df) ==
  IF df = <<>> THEN <<>>
  ELSE <<df[First(df)]>> \o sort_values(Without(df, First(df)))

\* df['Global Rank'] = range(1, len(df) + 1)
rank_rows(df) == [i \in 1..Len(df) |-> [df[i] EXCEPT !.global_rank = i]]

CountSource(df, src) == Cardinality({i \in 1..Len(df) : df[i].data_source = src})

\* the Rankings sheet and the Summary sheet written at the end of a job
Workbook(kind, df, total, processed) ==
  [kind |-> kind,
   rows |-> rank_rows(sort_values(df)),
   summary |-> [total |-> total, processed |-> processed,
                errors |-> total - processed,
                real_data |-> CountSource(df, "Real Data"),
                estimated |-> CountSource(df, "Estimated")]]

\* ExcelProcessingThread.finalize_processing, and the end of process_excel_file
finalize_processing(kind) ==
  Workbook(kind, result_df, total_universities, processed_count)

\* partial results made of every row of result_df
create_partial_results_all_rows ==
  Workbook("cancelled", result_df, total_universities, processed_count)

\* ExcelProcessingThread.create_partial_results
create_partial_results ==
  Workbook("cancelled", head(result_df, processed_count), total_universities,
           processed_count)

InitBatch ==
  /\ ExtraIdle
  /\ ConfigIdle
  /\ RequestsIdle
  /\ TierIdle
  /\ EstimateIdle
  /\ job \in {"thread", "function"}
  /\ total_universities \in 0..BatchRows
  /\ idx = 1
  /\ job_pc = "loop"
  /\ cancelled = FALSE
  /\ result_df = [i \in 1..total_universities |-> NewRow(i)]
  /\ processed_count = 0
  /\ progress_queue = <<>>
  /\ failed = {}
  /\ cancel_seen = FALSE

\* one iteration of `for idx, row in result_df.iterrows()`
ProcessRow ==
  /\ job_pc = "loop"
  /\ idx <= total_universities
  /\ ~(job = "thread" /\ cancelled)
  /\ \E o \in RowOutcomes :
       /\ result_df' =
            [result_df EXCEPT ![idx] =
               IF o.raised
               THEN [@ EXCEPT !.data_source = "Error", !.error = "exception"]
               ELSE [@ EXCEPT !.global_score = o.composite,
                              !.data_source = IF o.is_estimated THEN "Estimated"
                                              ELSE "Real Data"]]
       /\ failed' = IF o.raised THEN failed \cup {idx} ELSE failed
  /\ processed_count' = processed_count + 1
  /\ idx' = idx + 1
  /\ UNCHANGED <<job, total_universities, job_pc, cancelled, progress_queue,
                 cancel_seen>>
  /\ UNCHANGED <<request_vars, tier_vars, est_vars, config_vars, extra_vars>>

\* the loop is left: the rows are exhausted, or `if self.cancelled: break`
LeaveLoop ==
  /\ job_pc = "loop"
  /\ idx > total_universities \/ (job = "thread" /\ cancelled)
  /\ job_pc' = "after"
  /\ cancel_seen' = (job = "thread" /\ cancelled /\ idx <= total_universities)
  /\ UNCHANGED <<job, total_universities, idx, cancelled, result_df,
                 processed_count, progress_queue, failed>>
  /\ UNCHANGED <<request_vars, tier_vars, est_vars, config_vars, extra_vars>>

\* the lines after the loop
EndJob ==
  /\ job_pc = "after"
  /\ progress_queue' =
       Append(progress_queue,
              IF job = "function" THEN finalize_processing("returned")
              ELSE IF ~cancelled /\ processed_count > 0
              THEN finalize_processing("complete")
              ELSE create_partial_results)
  /\ cancel_seen' = (cancel_seen \/ (job = "thread" /\ cancelled))
  /\ job_pc' = "ended"
  /\ UNCHANGED <<job, total_universities, idx, cancelled, result_df,
                 processed_count, failed>>
  /\ UNCHANGED <<request_vars, tier_vars, est_vars, config_vars, extra_vars>>

\* ExcelProcessingThread.cancel, called from the handler of the cancel command
Cancel ==
  /\ job = "thread"
  /\ job_pc \in {"loop", "after"}
  /\ ~cancelled
  /\ cancelled' = TRUE
  /\ UNCHANGED <<job, total_universities, idx, job_pc, result_df,
                 processed_count, progress_queue, failed, cancel_seen>>
  /\ UNCHANGED <<request_vars, tier_vars, est_vars, config_vars, extra_vars>>

NextBatch == ProcessRow \/ LeaveLoop \/ EndJob \/ Cancel

SpecBatch == InitBatch /\ [][NextBatch]_vars

\* ------------------------------------------------ user configurations
UserIds == 1..ConfigUsers

UserConfiguration_all_enabled(user_id) ==
  [enable_wikipedia |-> TRUE, enable_google_search |-> TRUE,
   enable_webometrics |-> TRUE]

\* UserConfiguration.__init__: the flags of a new configuration
UserConfiguration(user_id) ==
  [enable_wikipedia |-> TRUE, enable_google_search |-> FALSE,
   enable_webometrics |-> FALSE]

\* UserConfiguration.update_source; a source it does not know changes no flag
update_source(config, source, value) ==
  IF source = "wikipedia" THEN [config EXCEPT !.enable_wikipedia = value]
  ELSE IF source = "google_search"
       THEN [config EXCEPT !.enable_google_search = value]
  ELSE IF source = "webometrics"
       THEN [config EXCEPT !.enable_webometrics = value]
  ELSE config

\* get_user_config: user_configurations after the call
get_user_config(configurations, user_id) ==
  IF user_id \in DOMAIN configurations
  THEN configurations
  ELSE configurations @@ (user_id :> UserConfiguration(user_id))

\* update_user_config: user_configurations after the call
update_user_config(configurations, user_id, source, value) ==
  LET created == get_user_config(configurations, user_id)
  IN  [created EXCEPT ![user_id] = update_source(@, source, value)]

\* the callback data of the buttons that reach a configuration
ToggleData ==
  {"toggle_wikipedia_enable", "toggle_wikipedia_disable",
   "toggle_google_enable", "toggle_google_disable",
   "toggle_webometrics_enable", "toggle_webometrics_disable"}

ButtonData == ToggleData \cup {"config_menu", "rank_excel"}

\* data.split("_")
split(data) ==
  CASE data = "toggle_wikipedia_enable"     -> <<"toggle", "wikipedia", "enable">>
    [] data = "toggle_wikipedia_disable"    -> <<"toggle", "wikipedia", "disable">>
    [] data = "toggle_google_enable"        -> <<"toggle", "google", "enable">>
    [] data = "toggle_google_disable"       -> <<"toggle", "google", "disable">>
    [] data = "toggle_webometrics_enable"   -> <<"toggle", "webometrics", "enable">>
    [] data = "toggle_webometrics_disable"  -> <<"toggle", "webometrics", "disable">>
    [] data = "config_menu"                 -> <<"config", "menu">>
    [] data = "rank_excel"                  -> <<"rank", "excel">>
    [] OTHER                                -> <<data>>

\* the message bodies of the WhatsApp conversation, stripped and lowered
Messages ==
  {"config", "back", "rank harvard university, usa",
   "enable wikipedia", "disable wikipedia",
   "enable google", "disable google",
   "enable webometrics", "disable webometrics"}

\* the words the WhatsApp handlers look for that occur in a message body
WordsIn(body) ==
  CASE body = "config"                       -> {"on"}
    [] body = "back"                         -> {"back"}
    [] body = "rank harvard university, usa" -> {"university", ","}
    [] body = "enable wikipedia"             -> {"enable", "wikipedia"}
    [] body = "disable wikipedia"            -> {"wikipedia"}
    [] body = "enable google"                -> {"enable", "google"}
    [] body = "disable google"               -> {"google"}
    [] body = "enable webometrics"           -> {"enable", "webometrics"}
    [] body = "disable webometrics"          -> {"webometrics"}
    [] OTHER                                 -> {}

\* body.startswith(prefix), for the commands of handle_message
startswith(body, prefix) ==
  \/ prefix = "config" /\ body = "config"
  \/ prefix = "rank " /\ body \in {"rank harvard university, usa", "rank mit",
                                  "rank mit, usa"}

Event(handler, user_id, data) ==
  [handler |-> handler, user_id |-> user_id, data |-> data]

InitConfig ==
  /\ ExtraIdle
  /\ RequestsIdle
  /\ TierIdle
  /\ EstimateIdle
  /\ BatchIdle
  /\ bot \in {"telegram", "whatsapp"}
  /\ user_configurations = [u \in {} |-> 0]
  /\ user_states = [u \in {} |-> ""]
  /\ last_event = NoEvent

\* Telegram: a button is pressed.  A toggle button updates the presser's
\* configuration and shows the menu again; the configuration menu and the
\* Excel button look the configuration up.
button_pressed(user_id, data) ==
  LET parts == split(data)
      source == parts[2]
      action == parts[3]
  IN  user_configurations' =
           IF parts[1] = "toggle" /\ Len(parts) >= 3
           THEN get_user_config(
                  update_user_config(user_configurations, user_id,
                                     source, action = "enable"),
                  user_id)
           ELSE get_user_config(user_configurations, user_id)

button_handler ==
  /\ bot = "telegram"
  /\ \E user_id \in UserIds, data \in ButtonData :
       /\ button_pressed(user_id, data)
       /\ last_event' = Event("button_handler", user_id, data)
  /\ UNCHANGED <<bot, user_states, request_vars, tier_vars, est_vars, batch_vars, extra_vars>>

\* Telegram: a ranking is performed for a user; rank_university reads the
\* flags of the configuration it is handed
perform_ranking ==
  /\ bot = "telegram"
  /\ \E user_id \in UserIds :
       /\ user_configurations' = get_user_config(user_configurations, user_id)
       /\ last_event' = Event("perform_ranking", user_id, "")
  /\ UNCHANGED <<bot, user_states, request_vars, tier_vars, est_vars, batch_vars, extra_vars>>

\* Telegram: a workbook arrives; the batch thread is handed the configuration
handle_excel_file ==
  /\ bot = "telegram"
  /\ \E user_id \in UserIds :
       /\ user_configurations' = get_user_config(user_configurations, user_id)
       /\ last_event' = Event("handle_excel_file", user_id, "")
  /\ UNCHANGED <<bot, user_states, request_vars, tier_vars, est_vars, batch_vars, extra_vars>>

\* WhatsApp handle_config_input: <<user_configurations, user_states>> after it
handle_config_input(configurations, states, from_number, input_text) ==
  LET words == WordsIn(input_text)
      value == "enable" \in words \/ "on" \in words
  IN  IF "wikipedia" \in words
      THEN <<update_user_config(configurations, from_number, "wikipedia", value),
             states>>
      ELSE IF "google" \in words
      THEN <<update_user_config(configurations, from_number, "google_search", value),
             states>>
      ELSE IF "webometrics" \in words
      THEN <<update_user_config(configurations, from_number, "webometrics", value),
             states>>
      ELSE IF "status" \in words \/ "show" \in words
      THEN <<get_user_config(configurations, from_number), states>>
      ELSE IF "back" \in words \/ "menu" \in words
      THEN <<get_user_config(configurations, from_number),
             [u \in DOMAIN states \ {from_number} |-> states[u]]>>
      ELSE <<get_user_config(configurations, from_number),
             [states EXCEPT ![from_number] = "config_menu"]>>

\* WhatsApp: a text message arrives
handle_message ==
  /\ bot = "whatsapp"
  /\ \E from_number \in UserIds, message_body \in Messages :
       LET states == IF from_number \in DOMAIN user_states
                     THEN user_states
                     ELSE user_states @@ (from_number :> "idle")
           after ==
             IF states[from_number] = "config_menu"
             THEN handle_config_input(user_configurations, states, from_number,
                                      message_body)
             ELSE IF startswith(message_body, "rank ")
             THEN <<get_user_config(user_configurations, from_number), states>>
             ELSE IF startswith(message_body, "config")
             THEN <<get_user_config(user_configurations, from_number),
                    [states EXCEPT ![from_number] = "config_menu"]>>
             ELSE <<get_user_config(user_configurations, from_number), states>>
       IN  /\ user_configurations' = after[1]
           /\ user_states' = after[2]
           /\ last_event' =
                Event(IF states[from_number] = "config_menu"
                      THEN "handle_config_input" ELSE "handle_message",
                      from_number, message_body)
  /\ UNCHANGED <<bot, request_vars, tier_vars, est_vars, batch_vars, extra_vars>>

\* WhatsApp: a workbook arrives
handle_excel_upload ==
  /\ bot = "whatsapp"
  /\ \E from_number \in UserIds :
       /\ user_configurations' = get_user_config(user_configurations, from_number)
       /\ last_event' = Event("handle_excel_upload", from_number, "")
  /\ UNCHANGED <<bot, user_states, request_vars, tier_vars, est_vars, batch_vars, extra_vars>>

NextConfig ==
  \/ button_handler
  \/ perform_ranking
  \/ handle_excel_file
  \/ handle_message
  \/ handle_excel_upload

SpecConfig == InitConfig /\ [][NextConfig]_vars

\* ------------------------------------- concurrent fetches of one source
\* Ranking requests run on the handler threads and on the batch threads, all
\* through one RateLimiter.  APICallTracker locks each of its methods, not the
\* span from check_rate_limit to record_call, and the external request lies
\* between the two.
Threads == 1..RaceThreads

request_rest == <<real_data_cache, pc, req, all_data, rate_limit_info, qi,
                  cache_hit, result, served, attempt, visited, denied,
                  start_calls, produced>>

IdleThread(began) == [pc |-> "idle", began |-> began, log |-> <<>>, at |-> 0]

InitRace ==
  /\ RequestsIdle
  /\ TierIdle
  /\ EstimateIdle
  /\ BatchIdle
  /\ ConfigIdle
  /\ threads = [t \in Threads |-> IdleThread(0)]
  /\ retry = NoRetry
  /\ ExcelIdle
  /\ ChatIdle

\* a thread enters safe_fetch_wikipedia: the check; when it fails the
\* exception leaves the fetcher and nothing is recorded
BeginFetch(t) ==
  /\ threads[t].pc = "idle"
  /\ threads[t].began < RaceFetches
  /\ threads' =
       [threads EXCEPT ![t] =
          IF check_rate_limit("wikipedia", calls["wikipedia"], now).raised
          THEN IdleThread(@.began + 1)
          ELSE [pc |-> "requesting", began |-> @.began + 1,
                log |-> calls["wikipedia"], at |-> now]]
  /\ UNCHANGED <<now, calls, retry, request_rest, tier_vars, est_vars,
                 batch_vars, config_vars,
                 excel_vars, chat_vars>>

\* the external request of the thread ends and the fetcher records its call
\* on the log as it is by then
EndFetch(t) ==
  /\ threads[t].pc = "requesting"
  /\ \E o \in WikiOutcomes :
       LET f == safe_fetch_wikipedia(o, threads[t].log, threads[t].at)
       IN  calls' = [calls EXCEPT !["wikipedia"] = record_calls(@, now, f.nrecords)]
  /\ threads' = [threads EXCEPT ![t] = IdleThread(@.began)]
  /\ UNCHANGED <<now, retry, request_rest, tier_vars, est_vars, batch_vars,
                 config_vars,
                 excel_vars, chat_vars>>

\* a minute passes
RaceTick ==
  /\ now < RaceTime
  /\ now' = now + 1
  /\ UNCHANGED <<calls, threads, retry, request_rest, tier_vars, est_vars,
                 batch_vars, config_vars,
                 excel_vars, chat_vars>>

NextRace ==
  \/ \E t \in Threads : BeginFetch(t)
  \/ \E t \in Threads : EndFetch(t)
  \/ RaceTick

SpecRace == InitRace /\ [][NextRace]_vars

\* ------------------------------------------- a caller that keeps fetching
AllOutcomes(api) ==
  CASE api = "wikipedia"     -> WikiOutcomes
    [] api = "google_search" -> GoogleOutcomes
    [] OTHER                 -> WebOutcomes

\* the fetcher of a source
safe_fetch(api, o, log, t) ==
  CASE api = "wikipedia"     -> safe_fetch_wikipedia(o, log, t)
    [] api = "google_search" -> safe_google_search(o, log, t)
    [] OTHER                 -> safe_fetch_webometrics(o, log, t)

InitRetry ==
  /\ RequestsIdle
  /\ TierIdle
  /\ EstimateIdle
  /\ BatchIdle
  /\ ConfigIdle
  /\ threads = <<>>
  /\ retry = NoRetry
  /\ ExcelIdle
  /\ ChatIdle

\* one more fetcher call for a source, whatever became of the calls before
Retry(api) ==
  /\ retry.tries < RetryTries
  /\ \E o \in Outcomes(api, AllOutcomes(api)) :
       LET f == safe_fetch(api, o, calls[api], now) IN
       /\ calls' = [calls EXCEPT ![api] = record_calls(@, now, f.nrecords)]
       /\ attempt' = Attempt(api, f, now, calls[api], FALSE)
       /\ retry' = [permitted |->
                      IF f.check.raised THEN retry.permitted
                      ELSE [retry.permitted EXCEPT ![api] = Append(@, now)],
                    tries |-> retry.tries + 1]
  /\ UNCHANGED <<now, threads, real_data_cache, pc, req, all_data,
                 rate_limit_info, qi, cache_hit, result, served, visited, denied,
                 start_calls, produced, tier_vars, est_vars, batch_vars,
                 config_vars,
                 excel_vars, chat_vars>>

\* a minute passes
RetryTick ==
  /\ now < RetryTime
  /\ now' = now + 1
  /\ UNCHANGED <<calls, threads, retry, request_rest, tier_vars, est_vars,
                 batch_vars, config_vars,
                 excel_vars, chat_vars>>

NextRetry ==
  \/ \E api \in Sources : Retry(api)
  \/ RetryTick

SpecRetry == InitRetry /\ [][NextRetry]_vars

\* ------------------------------------------- batch jobs of Telegram users
\* The dispatcher runs the handlers one after the other; every
\* ExcelProcessingThread and the update checker run as threads of their own
\* beside it.  A handler, a row of a thread and the work of the checker on
\* one terminal event are the steps.
\* the users that send workbooks
ExcelUserIds == {1, 2}

\* the buttons pressed while batch jobs run
ExcelButtons == {"toggle_wikipedia_enable", "toggle_wikipedia_disable"}

has_processing_job_never(processing, user_id) == FALSE

\* handle_excel_file: "if user_id in self.user_excel_processing"
has_processing_job(processing, user_id) == user_id \in DOMAIN processing

\* ExcelProcessingThread.__init__.  self.user_config is the UserConfiguration
\* object of the user, the one user_configurations holds, not a copy: the
\* thread sees the flags the object has when it reads them.  started_with and
\* rows are history: the flags at construction and the flags read for each
\* row.
ExcelProcessingThread(user_id, flags) ==
  [user_id |-> user_id, pc |-> "running", cancelled |-> FALSE,
   started_with |-> flags, rows |-> <<>>, progress_queue |-> <<>>]

\* a thread object that nothing refers to any more
Collected ==
  [user_id |-> 0, pc |-> "collected", cancelled |-> FALSE,
   started_with |-> UserConfiguration(0), rows |-> <<>>, progress_queue |-> <<>>]

InitExcel ==
  /\ RequestsIdle
  /\ TierIdle
  /\ EstimateIdle
  /\ BatchIdle
  /\ threads = <<>>
  /\ retry = NoRetry
  /\ ChatIdle
  /\ ExcelIdle
  /\ bot = "telegram"
  /\ user_configurations = [u \in {} |-> 0]
  /\ user_states = [u \in {} |-> ""]
  /\ last_event = NoEvent

\* a workbook arrives from user_id.  With an entry for the user the handler
\* replies and returns; otherwise it looks the configuration up, downloads the
\* file, constructs the thread, stores the entry and starts the thread.  A
\* download that raises leaves no entry and no thread.
handle_excel_file_for(user_id) ==
  /\ bot = "telegram"
  /\ \/ has_processing_job(user_excel_processing, user_id)
     \/ Len(excel_threads) < ExcelUploads
  /\ IF has_processing_job(user_excel_processing, user_id)
     THEN /\ last_event' = Event("handle_excel_file", user_id, "rejected")
          /\ UNCHANGED <<user_configurations, excel_vars>>
     ELSE \E downloaded \in BOOLEAN :
            LET configurations == get_user_config(user_configurations, user_id)
                thread == ExcelProcessingThread(user_id, configurations[user_id])
            IN  /\ user_configurations' = configurations
                /\ IF downloaded
                   THEN /\ excel_threads' = Append(excel_threads, thread)
                        /\ user_excel_processing' =
                             [u \in DOMAIN user_excel_processing \cup {user_id} |->
                                IF u = user_id
                                THEN [thread |-> Len(excel_threads) + 1,
                                      status |-> "running"]
                                ELSE user_excel_processing[u]]
                        /\ last_event' = Event("handle_excel_file", user_id, "started")
                   ELSE /\ UNCHANGED excel_vars
                        /\ last_event' = Event("handle_excel_file", user_id, "failed")
  /\ UNCHANGED <<bot, user_states, request_vars, tier_vars, est_vars, batch_vars,
                 threads, retry, chat_vars>>

\* /cancel_excel, and the cancel button of the processing message, which
\* button_handler lets only the owner of the job press
cancel_excel_command(user_id) ==
  /\ bot = "telegram"
  /\ IF user_id \notin DOMAIN user_excel_processing
     THEN UNCHANGED excel_vars
     ELSE /\ excel_threads' =
               [excel_threads EXCEPT
                  ![user_excel_processing[user_id].thread].cancelled = TRUE]
          /\ user_excel_processing' =
               [user_excel_processing EXCEPT ![user_id].status = "cancelling"]
  /\ UNCHANGED <<config_vars, request_vars, tier_vars, est_vars, batch_vars,
                 threads, retry, chat_vars>>

\* button_handler, a toggle button pressed by user_id
toggle_source(user_id) ==
  /\ bot = "telegram"
  /\ \E data \in ExcelButtons : button_pressed(user_id, data)
  /\ UNCHANGED <<bot, user_states, last_event, request_vars, tier_vars, est_vars,
                 batch_vars, extra_vars>>

\* ExcelProcessingThread.run, one row: the rate-limit checks and
\* rank_university read the flags of self.user_config
run_row(i) ==
  /\ i \in DOMAIN excel_threads
  /\ excel_threads[i].pc = "running"
  /\ ~excel_threads[i].cancelled
  /\ Len(excel_threads[i].rows) < ExcelRows
  /\ excel_threads' =
       [excel_threads EXCEPT
          ![i].rows = Append(@, user_configurations[excel_threads[i].user_id])]
  /\ UNCHANGED <<user_excel_processing, config_vars, request_vars, tier_vars,
                 est_vars, batch_vars, threads, retry, chat_vars>>

\* ExcelProcessingThread.run, its end: after the loop finalize_processing or
\* create_partial_results puts 'complete' or 'cancelled', or 'error' when
\* writing the workbook raises; an exception anywhere else in run puts
\* 'error' as well.  Nothing follows the terminal event.
run_end(i) ==
  /\ i \in DOMAIN excel_threads
  /\ excel_threads[i].pc = "running"
  /\ \E raised \in BOOLEAN :
       LET thread == excel_threads[i]
           left_loop == thread.cancelled \/ Len(thread.rows) = ExcelRows
           update_type ==
             IF raised THEN "error"
             ELSE IF ~thread.cancelled /\ Len(thread.rows) > 0 THEN "complete"
             ELSE "cancelled"
       IN  /\ raised \/ left_loop
           /\ excel_threads' =
                [excel_threads EXCEPT
                   ![i].pc = "ended",
                   ![i].progress_queue = Append(@, update_type)]
  /\ UNCHANGED <<user_excel_processing, config_vars, request_vars, tier_vars,
                 est_vars, batch_vars, threads, retry, chat_vars>>

\* check_updates, for one entry: the checker takes the terminal event off the
\* queue of the thread of the entry and calls finalize_excel_processing or
\* handle_processing_error, which send the file or the message and then call
\* _cleanup_processing; when sending raises, the except clause logs and the
\* clean-up is not reached.  With the entry goes the last reference to the
\* thread, which has ended.
check_updates(user_id) ==
  /\ user_id \in DOMAIN user_excel_processing
  /\ LET i == user_excel_processing[user_id].thread IN
       /\ excel_threads[i].progress_queue # <<>>
       /\ \E delivered \in BOOLEAN :
            IF delivered
            THEN /\ user_excel_processing' =
                      [u \in DOMAIN user_excel_processing \ {user_id} |->
                         user_excel_processing[u]]
                 /\ excel_threads' = [excel_threads EXCEPT ![i] = Collected]
            ELSE /\ excel_threads' =
                      [excel_threads EXCEPT ![i].progress_queue = Tail(@)]
                 /\ UNCHANGED user_excel_processing
  /\ UNCHANGED <<config_vars, request_vars, tier_vars, est_vars, batch_vars,
                 threads, retry, chat_vars>>

ExcelThreads == 1..ExcelUploads

\* workbooks, cancellations, the threads and the checker
NextExcel ==
  \/ \E user_id \in ExcelUserIds : handle_excel_file_for(user_id)
  \/ \E user_id \in ExcelUserIds : cancel_excel_command(user_id)
  \/ \E i \in ExcelThreads : run_row(i)
  \/ \E i \in ExcelThreads : run_end(i)
  \/ \E user_id \in ExcelUserIds : check_updates(user_id)

SpecExcel == InitExcel /\ [][NextExcel]_vars

\* the same, and the users press toggle buttons meanwhile
NextToggle ==
  \/ \E user_id \in ExcelUserIds : handle_excel_file_for(user_id)
  \/ \E user_id \in ExcelUserIds : cancel_excel_command(user_id)
  \/ \E user_id \in ExcelUserIds : toggle_source(user_id)
  \/ \E i \in ExcelThreads : run_row(i)
  \/ \E i \in ExcelThreads : run_end(i)
  \/ \E user_id \in ExcelUserIds : check_updates(user_id)

SpecToggle == InitExcel /\ [][NextToggle]_vars

\* the update checker is a daemon thread that polls every five seconds for
\* as long as the bot runs, and a started thread runs to its end
SpecExcelFair ==
  /\ SpecExcel
  /\ \A user_id \in ExcelUserIds : WF_vars(check_updates(user_id))
  /\ \A i \in ExcelThreads : WF_vars(run_row(i)) /\ WF_vars(run_end(i))

\* --------------------------------------------- the WhatsApp conversation
\* user_states[user] = {'state': ..., 'data': ...}: user_states holds the
\* state and state_data the value of data['university'], "" without one.
ChatUserIds == {1, 2}

\* message bodies, stripped and lowered
ChatBodies == {"rank mit", "rank mit, usa", "usa", "skip", "config", "back"}

\* message_body[5:]
after_rank(body) ==
  CASE body = "rank mit"      -> "mit"
    [] body = "rank mit, usa" -> "mit, usa"
    [] OTHER                  -> body

\* [p.strip() for p in query.split(',', 1)]
split_comma(query) ==
  CASE query = "mit, usa" -> <<"mit", "usa">>
    [] OTHER              -> <<query>>

Chat(configurations, states, data, ranked) ==
  [configurations |-> configurations, states |-> states, data |-> data,
   rankings |-> ranked]

\* get_user_state: an unknown user gets the state 'idle' with empty data
get_user_state(c, user_id) ==
  IF user_id \in DOMAIN c.states THEN c
  ELSE [c EXCEPT !.states = @ @@ (user_id :> "idle"),
                 !.data = @ @@ (user_id :> "")]

\* set_user_state: the entry of the user is replaced
set_user_state(c, user_id, state, university) ==
  [c EXCEPT
     !.states = [u \in DOMAIN c.states \cup {user_id} |->
                   IF u = user_id THEN state ELSE c.states[u]],
     !.data = [u \in DOMAIN c.data \cup {user_id} |->
                 IF u = user_id THEN university ELSE c.data[u]]]

\* clear_user_state: the entry of the user is deleted
clear_user_state(c, user_id) ==
  [c EXCEPT !.states = [u \in DOMAIN c.states \ {user_id} |-> c.states[u]],
            !.data = [u \in DOMAIN c.data \ {user_id} |-> c.data[u]]]

Ranking(from_number, university_name, country) ==
  [from_number |-> from_number, university_name |-> university_name,
   country |-> country]

\* WhatsApp perform_ranking: the configuration is looked up and
\* rank_university called with the name and the country
whatsapp_perform_ranking(c, from_number, university_name, country) ==
  [c EXCEPT
     !.configurations = get_user_config(@, from_number),
     !.rankings = Append(@, Ranking(from_number, university_name, country))]

handle_rank_command(c, from_number, query) ==
  LET parts == split_comma(query)
  IN  IF Len(parts) = 2
      THEN whatsapp_perform_ranking(c, from_number, parts[1], parts[2])
      ELSE set_user_state(c, from_number, "awaiting_university", query)

handle_university_input(c, from_number, university_name) ==
  set_user_state(get_user_state(c, from_number), from_number,
                 "awaiting_country", university_name)

handle_country_input(c, from_number, country) ==
  LET university_name == get_user_state(c, from_number).data[from_number]
  IN  whatsapp_perform_ranking(clear_user_state(c, from_number), from_number,
                               university_name,
                               IF country = "skip" THEN "" ELSE country)

\* handle_config_input on the conversation: set_user_state and
\* clear_user_state replace and delete the data with the state
config_input(c, from_number, input_text) ==
  LET after == handle_config_input(c.configurations, c.states, from_number,
                                   input_text)
  IN  [c EXCEPT
         !.configurations = after[1],
         !.states = after[2],
         !.data = [u \in DOMAIN after[2] |->
                     IF u = from_number THEN "" ELSE c.data[u]]]

\* the handler that handle_message passes a text message to
handler_of(state, message_body) ==
  IF state = "awaiting_university" THEN "handle_university_input"
  ELSE IF state = "awaiting_country" THEN "handle_country_input"
  ELSE IF state = "config_menu" THEN "handle_config_input"
  ELSE IF startswith(message_body, "rank ") THEN "handle_rank_command"
  ELSE IF startswith(message_body, "config") THEN "show_config_menu"
  ELSE "show_welcome"

\* handle_message for a text message: the conversation after it
handle_text(c, from_number, message_body) ==
  LET known == get_user_state(c, from_number)
      handler == handler_of(known.states[from_number], message_body)
  IN  CASE handler = "handle_university_input" ->
             handle_university_input(known, from_number, message_body)
        [] handler = "handle_country_input" ->
             handle_country_input(known, from_number, message_body)
        [] handler = "handle_config_input" ->
             config_input(known, from_number, message_body)
        [] handler = "handle_rank_command" ->
             handle_rank_command(known, from_number, after_rank(message_body))
        [] handler = "show_config_menu" ->
             [set_user_state(known, from_number, "config_menu", "")
                EXCEPT !.configurations = get_user_config(@, from_number)]
        [] OTHER ->
             [known EXCEPT !.configurations = get_user_config(@, from_number)]

InitChat ==
  /\ RequestsIdle
  /\ TierIdle
  /\ EstimateIdle
  /\ BatchIdle
  /\ threads = <<>>
  /\ retry = NoRetry
  /\ ExcelIdle
  /\ ChatIdle
  /\ bot = "whatsapp"
  /\ user_configurations = [u \in {} |-> 0]
  /\ user_states = [u \in {} |-> ""]
  /\ last_event = NoEvent

\* a text message arrives; last_event keeps the handler it was passed to
handle_message_from(from_number, message_body) ==
  /\ bot = "whatsapp"
  /\ LET c == Chat(user_configurations, user_states, state_data, rankings)
         state == get_user_state(c, from_number).states[from_number]
         after == handle_text(c, from_number, message_body)
     IN  /\ Len(after.rankings) <= ChatRankings
         /\ user_configurations' = after.configurations
         /\ user_states' = after.states
         /\ state_data' = after.data
         /\ rankings' = after.rankings
         /\ last_event' = Event(handler_of(state, message_body), from_number,
                                message_body)
  /\ UNCHANGED <<bot, request_vars, tier_vars, est_vars, batch_vars, threads,
                 retry, excel_vars>>

NextChat ==
  \E from_number \in ChatUserIds, message_body \in ChatBodies :
    handle_message_from(from_number, message_body)

SpecChat == InitChat /\ [][NextChat]_vars

\* ================================================================ claims
\* number of entries of a call log that are younger than w at time t
InWindow(log, t, w) == Cardinality({i \in 1..Len(log) : t - log[i] < w})

\* number of entries a fetcher call added to the log of its source
Appended ==
  InWindow(calls[attempt.api], attempt.at, 1) - InWindow(attempt.log, attempt.at, 1)

Called_ == attempt.api # ""

\* the flag of a source in the configuration of the request in flight
Wanted(api) ==
  \/ (api = "wikipedia" /\ req.user_config.enable_wikipedia)
  \/ (api = "google_search" /\ req.user_config.enable_google_search)
  \/ (api = "webometrics" /\ req.user_config.enable_webometrics)

Returned == pc = "done"

\* C1: a fetcher's rate-limit check fails exactly when, for one of the three
\* windows, as many calls as the window's ceiling were recorded inside it: it
\* fails once N calls are inside the window and passes again, for that window,
\* once enough of them are older than the window.
C1_CheckFollowsWindows ==
  Called_ =>
    (attempt.denied <=>
       \/ InWindow(attempt.log, attempt.at, MinuteTicks)
            >= limits[attempt.api].requests_per_minute
       \/ InWindow(attempt.log, attempt.at, HourTicks)
            >= limits[attempt.api].requests_per_hour
       \/ InWindow(attempt.log, attempt.at, DayTicks)
            >= limits[attempt.api].requests_per_day)

\* a Wikipedia check passes on a log whose N calls have all left the minute window
C1_Witness ==
  /\ attempt.api = "wikipedia"
  /\ ~attempt.denied
  /\ Len(attempt.log) >= limits["wikipedia"].requests_per_minute
  /\ InWindow(attempt.log, attempt.at, MinuteTicks) = 0

\* C2: every fetcher call whose rate-limit check passed adds exactly one entry
\* to the call log of its source, whatever the external call did.
C2_OneRecordPerAttempt ==
  (Called_ /\ ~attempt.denied) => Appended = 1

\* C3: a fetcher whose rate-limit check fails raises RateLimitExceededException
\* to its caller, makes no external request and leaves the call log unchanged.
C3_DeniedPropagates ==
  (Called_ /\ attempt.denied) =>
    /\ attempt.raised
    /\ ~attempt.requested
    /\ calls[attempt.api] = attempt.log

\* C4: when the check of an enabled source fails during a request, the request
\* still visits every enabled source and returns a result, and the result's
\* rate_limit_info holds a 'rate_limited' note with that source and reset time.
C4_DeniedSourceIsNoted ==
  (Returned /\ denied # {}) =>
    /\ \A s \in Sources :
         Wanted(s) =>
           \E i \in 1..Len(visited) : visited[i] = s
    /\ result.name = req.university_name
    /\ \A d \in denied :
         \E i \in 1..Len(result.rate_limit_info) :
           result.rate_limit_info[i] = rate_limited_note(d)

\* C5: after a Google query of a request was denied by the rate limiter, the
\* request makes no further Google query, and it still calls the Webometrics
\* fetcher when that source is enabled.
C5_NoGoogleQueryAfterDenial ==
  /\ ~(attempt.api = "google_search" /\ attempt.after_denial)
  /\ (Returned /\ Wanted("webometrics")
        /\ (\E d \in denied : d.api = "google_search"))
       => \E i \in 1..Len(visited) : visited[i] = "webometrics"

InFetch == pc \in {"wikipedia", "google", "webometrics"}

\* C6: once a request returned a non-empty payload for a case-folded
\* (name, country), every later request for it is served from the cache: no
\* fetcher is called, no call log changes, the returned payload equals the
\* first one and the returned info list ends with the cache-hit marker.
C6_CacheRoundTrip ==
  LET fk == FoldedKey(req.university_name, req.country) IN
  /\ (InFetch \/ (pc = "finish" /\ ~cache_hit)) => fk \notin DOMAIN produced
  /\ (Returned /\ cache_hit) =>
       /\ fk \in DOMAIN produced
       /\ result.real_data = produced[fk]
       /\ visited = <<>>
       /\ calls = start_calls
       /\ Len(result.rate_limit_info) > 0
       /\ result.rate_limit_info[Len(result.rate_limit_info)]
            = [api |-> "cache", status |-> "hit", reset_time |-> 0]

\* a request in another spelling of a cached key is answered from the cache
C6_Witness ==
  /\ Returned
  /\ cache_hit
  /\ req.country = "usa"
  /\ result.real_data.wikipedia = "page"
  /\ calls["wikipedia"] # <<>>

\* C7: a request in which no enabled fetcher returned data leaves the cache
\* unchanged.
C7_NoSourceNoCacheEntry ==
  (Returned /\ ~cache_hit /\ result.data_sources_used = <<>>) =>
    cache_key(req.university_name, req.country) \notin DOMAIN real_data_cache

SourceOrder(api) ==
  CASE api = "wikipedia" -> 1 [] api = "google_search" -> 2 [] OTHER -> 3

\* C8: a request that misses the cache calls the fetchers of the enabled
\* sources only, in the order Wikipedia, Google search, Webometrics, all of
\* them, and the call log of a disabled source does not change.
C8_OnlyEnabledInOrder ==
  (pc # "idle") =>
    /\ \A i \in 1..Len(visited) : Wanted(visited[i])
    /\ \A i, j \in 1..Len(visited) :
         i < j => SourceOrder(visited[i]) <= SourceOrder(visited[j])
    /\ \A s \in Sources :
         ~Wanted(s) => calls[s] = start_calls[s]
    /\ (Returned /\ ~cache_hit) =>
         \A s \in Sources :
           Wanted(s) =>
             \E i \in 1..Len(visited) : visited[i] = s

\* Wikipedia is disabled and the two other sources were called in order
C8_Witness ==
  /\ Returned
  /\ ~req.user_config.enable_wikipedia
  /\ visited = <<"google_search", "google_search", "google_search", "webometrics">>
  /\ calls["wikipedia"] = <<>>
  /\ calls["webometrics"] # <<>>

\* C9: the result is scored on the real-data path exactly when a source
\* contributed data, else on the known-institution path exactly when the
\* lowercased name is in the knowledge base, else on the heuristic path, and
\* is_estimated is true exactly on the heuristic path.
C9_ScoringPathPriority ==
  Returned =>
    LET used == result.data_sources_used # <<>>
        known == lower(result.name) \in DOMAIN university_db
    IN  /\ result.scoring = IF used THEN "real_data"
                            ELSE IF known THEN "database" ELSE "estimation"
        /\ result.scores =
             IF used
             THEN calculate_scores_from_real_data(result.name, req.country,
                                                  result.real_data)
             ELSE IF known THEN university_db[lower(result.name)].scores
             ELSE estimate_scores(result.name, req.country)
        /\ result.is_estimated = (~used /\ ~known)

\* a known institution with Wikipedia data is scored from the data
C9_Witness ==
  /\ Returned
  /\ lower(result.name) \in DOMAIN university_db
  /\ result.data_sources_used = <<"wikipedia">>
  /\ result.scoring = "real_data"
  /\ ~result.is_estimated

\* C10: a request for a known institution without contributing source returns
\* the stored scores and the stored country, whatever country was given, with
\* is_estimated false and without estimating.
C10_KnownInstitutionVerbatim ==
  (Returned /\ result.data_sources_used = <<>>
     /\ lower(req.university_name) \in DOMAIN university_db) =>
    LET e == university_db[lower(req.university_name)] IN
    /\ result.scores = e.scores
    /\ result.country = e.country
    /\ ~result.is_estimated
    /\ result.scoring = "database"

\* a repeated request that gave "usa" carries the stored "USA" and scores
C10_Witness ==
  /\ Returned
  /\ served = 2
  /\ req.university_name = "Harvard University"
  /\ req.country = "usa"
  /\ result.data_sources_used = <<>>
  /\ result.country = "USA"
  /\ result.scores = Scores(2500, 2400, 2000, 1300, 1000, 500)

\* the default source configuration of UserConfiguration
DefaultConfig == [enable_wikipedia |-> TRUE, enable_google_search |-> FALSE,
                  enable_webometrics |-> FALSE]

HarvardByDefault ==
  /\ Returned
  /\ req.university_name = "Harvard University"
  /\ req.country = "USA"
  /\ req.user_config = DefaultConfig

HarvardStatic ==
  /\ result.scores = Scores(2500, 2400, 2000, 1300, 1000, 500)
  /\ result.composite = 9700
  /\ result.tier = "A+"

\* C11 as stated: "Harvard University", "USA" under the default configuration
\* yields the static scores, composite 97.0 and tier A+ whether or not the
\* Wikipedia fetch returns data.
C11_HarvardAlwaysStatic == HarvardByDefault => HarvardStatic

\* C11, amended: "Harvard University", "USA" under the default configuration
\* yields the static scores {25, 24, 20, 13, 10, 5}, composite 97.0 and tier
\* A+ when no source contributed data to the payload (the Wikipedia fetch
\* returned nothing, or a cached payload without sources was served).
C11_HarvardStaticWithoutData ==
  (HarvardByDefault /\ result.data_sources_used = <<>>) => HarvardStatic

\* the Wikipedia fetch was made, returned nothing, and the result is static
C11_Witness ==
  /\ HarvardByDefault
  /\ visited = <<"wikipedia">>
  /\ result.data_sources_used = <<>>
  /\ result.composite = 9700
  /\ result.tier = "A+"

\* C12: every score of a returned result lies in [0, its declared maximum],
\* on each scoring path, and the six maxima sum to exactly 100.
C12_ScoresWithinMaxima ==
  /\ parameters.academic + parameters.graduate + parameters.roi + parameters.fsr
       + parameters.transparency + parameters.visibility = 10000
  /\ Returned =>
       \A k \in DOMAIN result.scores :
         0 <= result.scores[k] /\ result.scores[k] <= parameters[k]

FieldSum(scores) ==
  scores.academic + scores.graduate + scores.roi + scores.fsr
    + scores.transparency + scores.visibility

\* c is v rounded to one decimal (both in hundredths)
RoundedToTenth(c, v) == c % 10 = 0 /\ c - v < 5 /\ v - c <= 5

\* C13: the composite of every result is the sum of its six scores rounded to
\* one decimal and lies in [0, 100]; for a known institution it is strictly
\* positive and at most 100, as it is for every entry of the knowledge base.
C13_CompositeIsBoundedSum ==
  /\ \A n \in DOMAIN university_db :
       /\ 0 < FieldSum(university_db[n].scores)
       /\ FieldSum(university_db[n].scores) <= 10000
  /\ Returned =>
       /\ RoundedToTenth(result.composite, FieldSum(result.scores))
       /\ 0 <= result.composite /\ result.composite <= 10000
       /\ lower(result.name) \in DOMAIN university_db => result.composite > 0

\* a stored vector with a field above its maximum still sums to 99.0
C13_Witness ==
  /\ Returned
  /\ result.scoring = "database"
  /\ result.scores.roi > parameters.roi
  /\ result.composite = 9900

\* the tier of the half-open band that holds the score c (ten-thousandths)
Band(c) ==
  IF c < 450000 THEN "D"
  ELSE IF c < 550000 THEN "C"
  ELSE IF c < 650000 THEN "C+"
  ELSE IF c < 750000 THEN "B"
  ELSE IF c < 850000 THEN "A"
  ELSE "A+"

Classified == tier_bot # ""

\* C14: for every composite score of [0, 100], at any precision, the range
\* table get_tier of the bot modules and the threshold get_tier of rank.py
\* both return the tier of the half-open band that holds the score.
C14_TierIsBand ==
  Classified => (tier_bot = Band(tier_score) /\ tier_rank = Band(tier_score))

\* C15: two calls of estimate_scores with the same (name, country), for a
\* name without knowledge-base entry, return identical score vectors, in the
\* Telegram module and in the WhatsApp module alike.
C15_EstimateIsDeterministic ==
  \A i, j \in 1..Len(est_results) :
    /\ est_results[i].telegram = est_results[j].telegram
    /\ est_results[i].whatsapp = est_results[j].whatsapp

\* C16: the error margin of every returned result lies in [1.0, 15.0], on
\* every scoring path and for every combination of contributing sources.
C16_ErrorMarginInRange ==
  Returned => (100 <= result.error_margin /\ result.error_margin <= 1500)

\* a known institution with real data and the lowest draw: 1.0 * 0.7 is
\* raised back to 1.0
C16_Witness ==
  /\ Returned
  /\ lower(result.name) \in DOMAIN university_db
  /\ result.data_sources_used # <<>>
  /\ result.error_margin = 100

Ended == job_pc = "ended"

LastEvent == progress_queue[Len(progress_queue)]

NullScore(r) == r.global_score \notin Int

\* C18: in a batch job that runs to its end, a row whose ranking raised is
\* marked with an error annotation and a null score, every later row is still
\* processed, and the summary counts the row as an error.
C18_FailedRowIsolated ==
  (Ended /\ ~cancel_seen /\ failed # {}) =>
    /\ idx = total_universities + 1
    /\ \A f \in failed :
         /\ result_df[f].data_source = "Error"
         /\ result_df[f].error # ""
         /\ NullScore(result_df[f])
    /\ LastEvent.summary.errors = Cardinality(failed)


\* what a toggle button or a toggle message asks for
Requested(data) ==
  CASE data \in {"toggle_wikipedia_enable", "enable wikipedia"} ->
         [flag |-> "enable_wikipedia", value |-> TRUE]
    [] data \in {"toggle_wikipedia_disable", "disable wikipedia"} ->
         [flag |-> "enable_wikipedia", value |-> FALSE]
    [] data \in {"toggle_google_enable", "enable google"} ->
         [flag |-> "enable_google_search", value |-> TRUE]
    [] data \in {"toggle_google_disable", "disable google"} ->
         [flag |-> "enable_google_search", value |-> FALSE]
    [] data \in {"toggle_webometrics_enable", "enable webometrics"} ->
         [flag |-> "enable_webometrics", value |-> TRUE]
    [] data \in {"toggle_webometrics_disable", "disable webometrics"} ->
         [flag |-> "enable_webometrics", value |-> FALSE]
    [] OTHER -> [flag |-> "", value |-> FALSE]

\* the event is a user's toggle: a toggle button of the Telegram keyboard, or
\* an enable/disable message read by the WhatsApp configuration menu
IsToggle(ev) ==
  /\ ev.handler \in {"button_handler", "handle_config_input"}
  /\ Requested(ev.data).flag # ""

\* the flags a user has, the defaults when no configuration exists yet
FlagsOf(configurations, u) ==
  IF u \in DOMAIN configurations THEN configurations[u] ELSE DefaultConfig

\* C19: a configuration, once created, stays; it is created by an event of
\* its own user with Wikipedia on and the other two sources off; and the
\* flags of a user differ after a step from what they were (the defaults, if
\* the user had none) only when the step handles a toggle of that same user:
\* no ranking, workbook, menu or other user's event changes them.
C19_ConfigChangesOnlyByOwnToggle ==
  [][\A u \in UserIds :
       /\ u \in DOMAIN user_configurations => u \in DOMAIN user_configurations'
       /\ u \in DOMAIN user_configurations' \ DOMAIN user_configurations
            => last_event'.user_id = u
       /\ u \in DOMAIN user_configurations'
            => \/ user_configurations'[u] = FlagsOf(user_configurations, u)
               \/ IsToggle(last_event') /\ last_event'.user_id = u
    ]_vars

\* C19 witness: a ranking or a workbook of one user was handled, that user
\* has the default flags, and another user has flags that are not the default
C19_Witness ==
  /\ last_event.handler \in {"perform_ranking", "handle_excel_file",
                             "handle_message", "handle_excel_upload"}
  /\ last_event.user_id \in DOMAIN user_configurations
  /\ user_configurations[last_event.user_id] = DefaultConfig
  /\ \E u \in DOMAIN user_configurations :
       /\ u # last_event.user_id
       /\ user_configurations[u] # DefaultConfig

\* C20: a step that handles a toggle leaves the user's flag of the requested
\* source at the requested value and the user's other two flags as they were.
C20_ToggleSetsRequestedFlag ==
  [][IsToggle(last_event') =>
       LET u == last_event'.user_id
           asked == Requested(last_event'.data)
           old == FlagsOf(user_configurations, u)
       IN  /\ u \in DOMAIN user_configurations'
           /\ user_configurations'[u][asked.flag] = asked.value
           /\ \A f \in DOMAIN old \ {asked.flag} :
                user_configurations'[u][f] = old[f]
    ]_vars

\* the multiplier of a country as the table gives it
MultiplierOf(country) ==
  LET key == IF country = "" THEN "GLOBAL" ELSE upper(country)
  IN  IF key \in DOMAIN country_multipliers THEN country_multipliers[key] ELSE 100

MultiplierFields == {"academic", "graduate", "roi", "fsr"}

\* field k of the estimate of the name under the country meets no clamp: the
\* product with the multiplier is below the maximum and the returned score is
\* above 0 and below the maximum
Unclamped(name, e, k) ==
  LET n == lower(name)
      adjusted == _apply_name_pattern_adjustments(n, _get_base_scores_by_type(n))
  IN  /\ adjusted[k] * MultiplierOf(e.country) < parameters[k] * 100
      /\ e.scores[k] > 0
      /\ e.scores[k] < parameters[k]

\* C21: for a name without a knowledge-base entry, two estimates made under
\* countries of different multipliers differ in each of academic, graduate,
\* roi and fsr that is clamped in neither of them, and when none of the four
\* is clamped their composites differ too.
C21_CountryMultiplierEffect ==
  \A i, j \in 1..Len(est_results) :
    LET name == est_input[1]
        a == est_results[i]
        b == est_results[j]
        free == {k \in MultiplierFields :
                   Unclamped(name, a, k) /\ Unclamped(name, b, k)}
    IN  (/\ "scores" \in DOMAIN a
         /\ lower(name) \notin DOMAIN university_db
         /\ MultiplierOf(a.country) # MultiplierOf(b.country))
        => /\ \A k \in free : a.scores[k] # b.scores[k]
           /\ free = MultiplierFields
                => calculate_composite_score(a.scores)
                     # calculate_composite_score(b.scores)

\* C21 witness: the name of the authors' test was estimated under two
\* countries of different multipliers and none of the four fields is clamped
C21_Witness ==
  /\ est_input[1] = "Generic University"
  /\ Len(est_results) >= 2
  /\ "scores" \in DOMAIN est_results[1]
  /\ MultiplierOf(est_results[1].country) # MultiplierOf(est_results[2].country)
  /\ \A k \in MultiplierFields :
       /\ Unclamped(est_input[1], est_results[1], k)
       /\ Unclamped(est_input[1], est_results[2], k)

\* the type the authors' test expects for a name
ExpectedType(name) ==
  CASE name \in {"Harvard University", "MIT", "Stanford University"}
         -> "RESEARCH_UNIVERSITY"
    [] name \in {"Conestoga College", "Algonquin College"}
         -> "COLLEGE_POLYTECHNIC"
    [] name = "Harvard Business School"   -> "SPECIALIST_SCHOOL"
    [] name = "State Technical Institute" -> "APPLIED_UNIVERSITY"
    [] OTHER                              -> "TEACHING_UNIVERSITY"

\* C22: every name of the authors' test is classified as the test expects.
C22_TypeAsExpected ==
  \A i \in 1..Len(est_results) :
    "uni_type" \in DOMAIN est_results[i]
      => est_results[i].uni_type = ExpectedType(est_input[1])

\* the first window, in the order minute, hour, day, whose count of a call log
\* has met its ceiling at time t; "" when none has
FirstWindowMet(api, log, t) ==
  IF InWindow(log, t, MinuteTicks) >= limits[api].requests_per_minute
  THEN "Minute limit"
  ELSE IF InWindow(log, t, HourTicks) >= limits[api].requests_per_hour
  THEN "Hourly limit"
  ELSE IF InWindow(log, t, DayTicks) >= limits[api].requests_per_day
  THEN "Daily limit"
  ELSE ""

\* the length of the window a failure names: a minute, an hour, 24 hours
WindowLength(detail) ==
  CASE detail = "Minute limit" -> MinuteTicks
    [] detail = "Hourly limit" -> HourTicks
    [] detail = "Daily limit"  -> DayTicks
    [] OTHER                   -> 0

\* C23: a failed check names the first window, in the order minute, hour,
\* day, whose count has met its ceiling, and every failure carries a reset
\* time that lies one length of its offending window after the check: one
\* minute, one hour, or 24 hours.
C23_ResetAfterOffendingWindow ==
  /\ attempt.denied
       => \E d \in denied :
            /\ d.api = attempt.api
            /\ d.detail = FirstWindowMet(attempt.api, attempt.log, attempt.at)
  /\ \A d \in denied : d.reset_time = WindowLength(d.detail)

\* C24: every source named in data_sources_used of a returned result is
\* enabled in the configuration of the request, whoever ranked the same name
\* and country before.
C24_UsedSourcesAreEnabled ==
  Returned =>
    \A i \in 1..Len(result.data_sources_used) :
      Wanted(result.data_sources_used[i])

\* C25: whatever the interleaving of the threads that fetch from a source,
\* the call log of the source never holds more entries of the last minute
\* than the per-minute ceiling of the source.
C25_LogWithinMinuteCeiling ==
  \A s \in Sources :
    InWindow(calls[s], now, MinuteTicks) <= limits[s].requests_per_minute

\* C26: a fetcher call is denied only while a call of the same source whose
\* check passed is still inside the window that denies it: once the last
\* permitted call is older than that window the check passes, however many
\* calls were denied in the meantime.
C26_DenialNeedsPermittedCallInWindow ==
  (Called_ /\ attempt.denied) =>
    LET window == WindowLength(FirstWindowMet(attempt.api, attempt.log, attempt.at))
        passed == retry.permitted[attempt.api]
    IN  \E i \in 1..Len(passed) : attempt.at - passed[i] < window

\* C27: every row of a batch job is ranked with the source flags that the
\* configuration of the user had when the job was started, whatever the user
\* toggles while the job runs
C27_JobKeepsStartConfiguration ==
  \A i \in DOMAIN excel_threads :
    \A k \in DOMAIN excel_threads[i].rows :
      excel_threads[i].rows[k] = excel_threads[i].started_with

\* the thread of the entry of a user has put its terminal event
TerminalEmitted(user_id) ==
  /\ user_id \in DOMAIN user_excel_processing
  /\ excel_threads[user_excel_processing[user_id].thread].pc = "ended"

\* C28: once the batch job of a user has emitted its terminal event, the
\* entry of the user in user_excel_processing is eventually removed, so that
\* the next workbook of the user is accepted
C28_EntryRemovedAfterTerminalEvent ==
  \A user_id \in ExcelUserIds :
    TerminalEmitted(user_id) ~> (user_id \notin DOMAIN user_excel_processing)

\* the threads of a user that are running
RunningOf(user_id) ==
  {i \in DOMAIN excel_threads :
     excel_threads[i].user_id = user_id /\ excel_threads[i].pc = "running"}

\* a user has at most one running thread, and it is the thread of the entry
\* of the user
OneJobPerUser ==
  \A user_id \in ExcelUserIds :
    /\ Cardinality(RunningOf(user_id)) <= 1
    /\ \A i \in RunningOf(user_id) :
         /\ user_id \in DOMAIN user_excel_processing
         /\ user_excel_processing[user_id].thread = i

\* a workbook from a user who has an entry starts no thread and leaves the
\* entries as they are
UploadWithEntry ==
  \A user_id \in ExcelUserIds :
    (user_id \in DOMAIN user_excel_processing /\ handle_excel_file_for(user_id))
      => UNCHANGED excel_vars

\* C29: at any time a user has at most one registered, running batch job, and
\* a workbook from a user who has an entry starts no thread and leaves the
\* entry unchanged
C29_OneJobPerUser == []OneJobPerUser /\ [][UploadWithEntry]_vars

\* a second job of a user, started after the checker cleaned up the first and
\* cancelled since, is still running when another workbook of the user is
\* turned away
C29_Witness ==
  \E user_id \in ExcelUserIds :
    /\ Len(excel_threads) = 2
    /\ excel_threads[1] = Collected
    /\ user_id \in DOMAIN user_excel_processing
    /\ user_excel_processing[user_id] = [thread |-> 2, status |-> "cancelling"]
    /\ excel_threads[2].user_id = user_id
    /\ excel_threads[2].pc = "running"
    /\ last_event = Event("handle_excel_file", user_id, "rejected")

\* the bot has just asked the user for the country of the university named
\* in the rank command
AskedForCountry(user_id) ==
  last_event = Event("handle_rank_command", user_id, "rank mit")

\* the conversation state the user is in
StateOf(states, user_id) ==
  IF user_id \in DOMAIN states THEN states[user_id] ELSE "idle"

RankedAsAnswered(user_id, message_body) ==
  (AskedForCountry(user_id) /\ handle_message_from(user_id, message_body))
    => /\ rankings' =
            Append(rankings,
                   Ranking(user_id, "mit",
                           IF message_body = "skip" THEN "" ELSE message_body))
       /\ StateOf(user_states', user_id) = "idle"

\* C30: after 'rank <name>' without a comma the bot asks for the country,
\* and the next message of the user is taken as the country ('skip' as
\* none): the ranking is performed for <name> with that country and the
\* conversation state of the user is idle again
C30_RankThenCountry ==
  [][\A user_id \in ChatUserIds, message_body \in {"usa", "skip"} :
       RankedAsAnswered(user_id, message_body)]_vars

====
